---------------------------- MODULE Spec2Model ----------------------------
(***************************************************************************)
(* Model of the scenario-evaluation core of multiple-ai-agents:            *)
(*   - MetricsCollector      (src/scenarios/metrics_collector.py)          *)
(*   - SensorDataGenerator   (src/scenarios/data_generator.py)             *)
(*   - NormalOperationScenario, FailoverScenario, LoadBalancingScenario    *)
(*     (src/scenarios/scenario_{1,2,3}_*.py)                               *)
(* Every component has its own variables and its own specification; the    *)
(* actions of one component leave the variables of the others unchanged.   *)
(***************************************************************************)
EXTENDS Integers, Sequences, FiniteSets, TLC

(***************************************************************************)
(* Generic helpers: Python dicts are functions with a finite domain.       *)
(***************************************************************************)
EmptyDict == [x \in {} |-> 0]

DictGet(d, k, dflt) == IF k \in DOMAIN d THEN d[k] ELSE dflt

DictPut(d, k, v) == [x \in (DOMAIN d) \cup {k} |-> IF x = k THEN v ELSE d[x]]

RECURSIVE SeqSum(_)
SeqSum(s) == IF s = <<>> THEN 0 ELSE Head(s) + SeqSum(Tail(s))

SeqMin(s) == CHOOSE x \in {s[i] : i \in 1..Len(s)} : \A j \in 1..Len(s) : x <= s[j]

SeqMax(s) == CHOOSE x \in {s[i] : i \in 1..Len(s)} : \A j \in 1..Len(s) : x >= s[j]

\* A Python float quotient n / d is kept exact as the pair <<n, d>>.
Ratio(n, d) == <<n, d>>

RatEq(a, b) == a[1] * b[2] = b[1] * a[2]

RatLeq(a, b) == a[1] * b[2] <= b[1] * a[2]

(***************************************************************************)
(*                           MetricsCollector                              *)
(***************************************************************************)
VARIABLES
    now,               \* time.time(), in seconds
    host,              \* what psutil reports at this moment
    metrics_history,   \* defaultdict(deque): key -> sequence of <<timestamp, value>>
    current_metrics,   \* last system_metrics dict ({} after construction)
    collection_active,
    collection_thread, \* 0 is None, else the id of the last thread started
    task_counters,     \* defaultdict(int)
    response_times,    \* defaultdict(list)
    error_counts,      \* defaultdict(int)
    task_executions,   \* the lines of task_executions.jsonl
    samplerPc,         \* position of each sampler thread in _collect_continuously
    samplerInterval,   \* its interval argument
    samplerMetrics,    \* its local system_metrics
    samplerKey,        \* its position in the loop over system_metrics.items()
    nSamples,          \* number of loop iterations begun by the samplers
    appended,          \* history of all (timestamp, value) pairs appended, per key
    recPc,             \* position of each recording thread in record_task_execution
    recArgs,           \* its arguments
    recTmp,            \* the value it loaded for a += 1
    nCalls,            \* number of record_task_execution calls begun
    summary,           \* what the last get_performance_summary() returned
    exported,          \* the document the last export_metrics() wrote
    nReads,            \* number of get_performance_summary and export_metrics calls
    nStarts            \* number of start_collection calls

collectorVars == <<now, host, metrics_history, current_metrics, collection_active,
                   collection_thread, task_counters, response_times, error_counts,
                   task_executions, samplerPc, samplerInterval, samplerMetrics,
                   samplerKey, nSamples, appended, recPc, recArgs, recTmp, nCalls,
                   summary, exported, nReads, nStarts>>

\* Capacity of one history series (metrics_collector.py line 69).
HistoryCapacity == 1000

\* Bounds of the model.
MaxSamplerThreads == 2
MaxSamples == 2
MaxStarts == 3
MaxRingSamples == 1002
MaxRecorders == 2
MaxSeqCalls == 2
MaxSeqReads == 2
MaxConcCalls == 2
MaxConcReads == 1

\* The keys of system_metrics other than 'timestamp', in dict order (lines 54-61).
HistoryKeys == <<"cpu_percent", "memory_percent", "disk_usage", "network_io", "process_count">>

HistoryKeySet == {HistoryKeys[i] : i \in 1..Len(HistoryKeys)}

\* Readings of the host: two levels of load.
LowLoad == [cpu_percent |-> 10, memory_percent |-> 40, disk_usage |-> 50,
            network_io |-> "io", process_count |-> 100]

HighLoad == [cpu_percent |-> 90, memory_percent |-> 60, disk_usage |-> 50,
             network_io |-> "io", process_count |-> 100]

HostStates == {LowLoad, HighLoad}

\* start_collection(self, interval=5)
DefaultInterval == 5

Intervals == {5, 12}

SamplerIds == 1..MaxSamplerThreads
RecorderIds == 1..MaxRecorders
TaskTypes == {"analysis", "inference"}
Locations == {"supervisor"}
ResponseTimes == {5, 9}

\* counter_key = f"{location}_{task_type}": a pair, which is injective like the
\* formatted string is for these names.
CounterKey(location, task_type) == <<location, task_type>>

NoArgs == [task_type |-> "", response_time |-> 0, success |-> TRUE, location |-> ""]

NoSummary == [task_summary |-> EmptyDict, average_response_times |-> EmptyDict,
              error_rates |-> EmptyDict, system_utilization |-> EmptyDict,
              returned |-> FALSE]

CollectorInit ==
    /\ now = 0
    /\ host = LowLoad
    /\ metrics_history = EmptyDict
    /\ current_metrics = EmptyDict
    /\ collection_active = FALSE
    /\ collection_thread = 0
    /\ task_counters = EmptyDict
    /\ response_times = EmptyDict
    /\ error_counts = EmptyDict
    /\ task_executions = <<>>
    /\ samplerPc = [t \in SamplerIds |-> "unborn"]
    /\ samplerInterval = [t \in SamplerIds |-> 0]
    /\ samplerMetrics = [t \in SamplerIds |-> EmptyDict]
    /\ samplerKey = [t \in SamplerIds |-> 0]
    /\ nSamples = 0
    /\ appended = [k \in HistoryKeySet |-> <<>>]
    /\ recPc = [r \in RecorderIds |-> "idle"]
    /\ recArgs = [r \in RecorderIds |-> NoArgs]
    /\ recTmp = [r \in RecorderIds |-> 0]
    /\ nCalls = 0
    /\ summary = NoSummary
    /\ exported = EmptyDict
    /\ nReads = 0
    /\ nStarts = 0

(***************************************************************************)
(*                  State of SensorDataGenerator calls                     *)
(***************************************************************************)
VARIABLES
    genPc,          \* position in generate_sensor_data
    genLocation,    \* its location argument
    genHour,        \* datetime.fromtimestamp(timestamp).hour of its timestamp
    temperature,    \* its locals, in hundredths of a unit
    humidity,
    pressure,
    air_quality,
    genAnomaly,     \* the anomaly injected into this reading, "none" if none
    reading         \* the dict it returned

genVars == <<genPc, genLocation, genHour, temperature, humidity, pressure,
             air_quality, genAnomaly, reading>>

(***************************************************************************)
(*                State of one NormalOperationScenario.run                 *)
(***************************************************************************)
VARIABLES
    s1Pc,        \* position in run
    s1Duration,  \* its duration argument, in seconds
    s1Now,       \* time.time() - start_time, in seconds
    s1Task,      \* the task of this loop iteration
    s1Future,    \* the future of its _execute_task call
    s1Abandoned, \* _execute_task calls whose result wait timed out and that still
                 \* occupy (running) or wait for (queued) a pool worker
    s1Results,   \* the results dict
    s1Sensor     \* the thread of _stream_sensor_data: its position, its own
                 \* time.time() - start_time and the sends of its round so far

s1Vars == <<s1Pc, s1Duration, s1Now, s1Task, s1Future, s1Abandoned, s1Results, s1Sensor>>

(***************************************************************************)
(*                 State of one LoadBalancingScenario.run                  *)
(***************************************************************************)
VARIABLES
    lbPc,            \* position in run / _run_load_phase
    lbDuration,      \* the duration argument of run, in milliseconds
    lbNow,           \* time.time() - start_time of run, in milliseconds
    lbPhase,         \* index in load_phases of the phase being run
    lbPhaseStart,    \* start_time of _run_load_phase
    lbPhaseDuration, \* its duration argument
    lbTask,          \* task, current_cpu and target of this loop iteration
    lbCpu,
    lbTarget,
    lbCalls,         \* the calls submitted to the pool of this phase
    lbPhaseResults,  \* the results dict of _run_load_phase
    lbResults,       \* the results dict of run
    lbMonitor        \* the thread of _monitor_system_load: its position, and the
                     \* time (since start_time) its next step is due

lbVars == <<lbPc, lbDuration, lbNow, lbPhase, lbPhaseStart, lbPhaseDuration, lbTask,
            lbCpu, lbTarget, lbCalls, lbPhaseResults, lbResults, lbMonitor>>

(***************************************************************************)
(*                     State of one FailoverScenario.run                   *)
(***************************************************************************)
VARIABLES
    foPc,             \* position in run and the methods it calls
    foDuration,       \* the duration argument of run, in milliseconds
    foNow,            \* time.time() - start_time of run, in milliseconds
    foPhaseStart,     \* start_time of the phase loop being run
    foPhaseDuration,  \* its duration argument
    foPhase,          \* the results dict of the phase loop being run
    foDetectionStart, \* detection_start of _measure_failure_detection
    foRound,          \* what the peers do in the current polling round, and who was polled
    foElectionStart,  \* election_start of _trigger_leader_election
    foElection,       \* the election_futures, by location
    foLeader,         \* leader of _trigger_leader_election
    foLeaderEndpoint, \* leader_endpoint of _run_rpi_leader_phase
    foResults,        \* the results dict of run
    foSent            \* what the peers answered to the status requests of phase 3,
                      \* and the endpoints its tasks were posted to

foVars == <<foPc, foDuration, foNow, foPhaseStart, foPhaseDuration, foPhase,
            foDetectionStart, foRound, foElectionStart, foElection, foLeader,
            foLeaderEndpoint, foResults, foSent>>

(***************************************************************************)
(*          State of one call of a ScenarioOrchestrator method             *)
(***************************************************************************)
VARIABLES
    orchPc,              \* position in run_all_scenarios / run_single_scenario
    orchCall,            \* the method called and its arguments
    orchScenario,        \* position of the for loop over self.scenarios
    orchI,               \* i of the loop over range(iterations)
    orchScenarioResults, \* scenario_results / results of run_single_scenario
    orchResults,         \* results of run_all_scenarios
    orchFiles,           \* the files _save_results wrote, by name
    orchEvents,          \* what happened so far, in order: runs started and
                         \* returned, files saved, the analysis
    orchSlept            \* the seconds the call has spent in time.sleep

orchVars == <<orchPc, orchCall, orchScenario, orchI, orchScenarioResults, orchResults,
              orchFiles, orchEvents, orchSlept>>

(***************************************************************************)
(*     State of the TaskQueue of app.py and of its one consumer thread     *)
(***************************************************************************)
VARIABLES
    tqTasks,    \* self.tasks, the queue.Queue: the tasks put and not yet got
    tqRunning,  \* self.running.is_set()
    tqPc,       \* position of the consumer thread in run
    tqCurrent,  \* the task the consumer has got
    tqAdded,    \* how many add_task calls have put their task
    tqLog       \* what the consumer has done so far, in order

tqVars == <<tqTasks, tqRunning, tqPc, tqCurrent, tqAdded, tqLog>>

(***************************************************************************)
(*          State of one analyze_all_scenarios call of the analyzer        *)
(***************************************************************************)
VARIABLES
    anPc,       \* position in analyze_all_scenarios
    anResults,  \* its results argument: scenario id -> list of run results
    anSummary   \* the summary it returns

anVars == <<anPc, anResults, anSummary>>

(***************************************************************************)
(*        State of one send_sensor_data call (sensor/sensor_reading.py)    *)
(***************************************************************************)
VARIABLES
    sendPc,       \* position in send_sensor_data
    sendRetries,  \* its retries argument
    sendDelay,    \* its delay argument, in seconds
    sendAttempt,  \* attempt of the for loop
    sendLog,      \* the posts and sleeps of the call so far, in order
    sendReturn    \* what the call returned

sendVars == <<sendPc, sendRetries, sendDelay, sendAttempt, sendLog, sendReturn>>

\* What the actions of each component leave unchanged.
notCollector == <<genVars, s1Vars, lbVars, foVars, orchVars, tqVars, anVars, sendVars>>
notGen == <<collectorVars, s1Vars, lbVars, foVars, orchVars, tqVars, anVars, sendVars>>
notS1 == <<collectorVars, genVars, lbVars, foVars, orchVars, tqVars, anVars, sendVars>>
notLbRun == <<collectorVars, genVars, s1Vars, foVars, orchVars, tqVars, anVars, sendVars>>
notLb == <<notLbRun, lbMonitor>>
notFoRun == <<collectorVars, genVars, s1Vars, lbVars, orchVars, tqVars, anVars, sendVars>>
notFo == <<notFoRun, foSent>>
notOrch == <<collectorVars, genVars, s1Vars, lbVars, foVars, tqVars, anVars, sendVars>>
notTq == <<collectorVars, genVars, s1Vars, lbVars, foVars, orchVars, anVars, sendVars>>
notAn == <<collectorVars, genVars, s1Vars, lbVars, foVars, orchVars, tqVars, sendVars>>
notSend == <<collectorVars, genVars, s1Vars, lbVars, foVars, orchVars, tqVars, anVars>>

(***************************************************************************)
(* start_collection / stop_collection (lines 29-46).                       *)
(***************************************************************************)
UnbornSamplers == {t \in SamplerIds : samplerPc[t] = "unborn"}

\* A start that never takes the early return.
StartNeverReturnsEarly == FALSE

\* lines 31-32: if self.collection_active: return
StartReturnsEarly == collection_active

StartCollection(interval) ==
    /\ \/ /\ StartReturnsEarly
          /\ UNCHANGED <<collection_active, collection_thread, samplerPc, samplerInterval>>
       \/ /\ ~StartReturnsEarly
          /\ UnbornSamplers # {}
          /\ LET t == CHOOSE x \in UnbornSamplers : \A y \in UnbornSamplers : x <= y
             IN /\ collection_active' = TRUE
                /\ collection_thread' = t
                /\ samplerPc' = [samplerPc EXCEPT ![t] = "check"]
                /\ samplerInterval' = [samplerInterval EXCEPT ![t] = interval]
    /\ UNCHANGED <<now, host, metrics_history, current_metrics, task_counters,
                   response_times, error_counts, task_executions, samplerMetrics,
                   samplerKey, nSamples, appended, recPc, recArgs, recTmp, nCalls,
                   summary, exported, nReads>>
    /\ nStarts' = nStarts + 1
    /\ UNCHANGED notCollector

\* join(timeout=10) returns when the thread has ended or after 10 s, whichever is
\* first; either way stop_collection returns and the thread is left to itself.
StopCollection ==
    /\ collection_active' = FALSE
    /\ UNCHANGED <<now, host, metrics_history, current_metrics, collection_thread,
                   task_counters, response_times, error_counts, task_executions,
                   samplerPc, samplerInterval, samplerMetrics, samplerKey, nSamples,
                   appended, recPc, recArgs, recTmp, nCalls, summary, exported, nReads, nStarts>>
    /\ UNCHANGED notCollector

(***************************************************************************)
(* _collect_continuously (lines 48-73), one step per statement.            *)
(***************************************************************************)
\* line 50: while self.collection_active
SamplerCheck(t, limit) ==
    /\ samplerPc[t] = "check"
    /\ IF collection_active
          THEN /\ nSamples < limit
               /\ nSamples' = nSamples + 1
               /\ samplerPc' = [samplerPc EXCEPT ![t] = "read"]
          ELSE /\ samplerPc' = [samplerPc EXCEPT ![t] = "done"]
               /\ UNCHANGED nSamples
    /\ UNCHANGED <<now, host, metrics_history, current_metrics, collection_active,
                   collection_thread, task_counters, response_times, error_counts,
                   task_executions, samplerInterval, samplerMetrics, samplerKey,
                   appended, recPc, recArgs, recTmp, nCalls, summary, exported, nReads, nStarts>>
    /\ UNCHANGED notCollector

\* lines 51-61: timestamp = time.time(), then the psutil readings;
\* cpu_percent(interval=1) blocks for one second.
SystemMetrics(timestamp, h) ==
    [timestamp |-> timestamp, cpu_percent |-> h.cpu_percent,
     memory_percent |-> h.memory_percent, disk_usage |-> h.disk_usage,
     network_io |-> h.network_io, process_count |-> h.process_count]

SamplerRead(t) ==
    /\ samplerPc[t] = "read"
    /\ samplerMetrics' = [samplerMetrics EXCEPT ![t] = SystemMetrics(now, host)]
    /\ now' = now + 1
    /\ samplerKey' = [samplerKey EXCEPT ![t] = 1]
    /\ samplerPc' = [samplerPc EXCEPT ![t] = "append"]
    /\ UNCHANGED <<host, metrics_history, current_metrics, collection_active,
                   collection_thread, task_counters, response_times, error_counts,
                   task_executions, samplerInterval, nSamples, appended, recPc,
                   recArgs, recTmp, nCalls, summary, exported, nReads, nStarts>>
    /\ UNCHANGED notCollector

\* line 66: self.metrics_history[key].append((timestamp, value))
HistoryAppend(history, key, entry) ==
    DictPut(history, key, Append(DictGet(history, key, <<>>), entry))

SamplerAppend(t) ==
    /\ samplerPc[t] = "append"
    /\ LET key == HistoryKeys[samplerKey[t]]
           entry == <<samplerMetrics[t].timestamp, samplerMetrics[t][key]>>
       IN /\ metrics_history' = HistoryAppend(metrics_history, key, entry)
          /\ appended' = [appended EXCEPT ![key] = Append(@, entry)]
    /\ samplerPc' = [samplerPc EXCEPT ![t] = "trim"]
    /\ UNCHANGED <<now, host, current_metrics, collection_active, collection_thread,
                   task_counters, response_times, error_counts, task_executions,
                   samplerInterval, samplerMetrics, samplerKey, nSamples, recPc,
                   recArgs, recTmp, nCalls, summary, exported, nReads, nStarts>>
    /\ UNCHANGED notCollector

\* A trim that drops the newest entry instead of the oldest.
HistoryTrimNewest(history, key) ==
    IF Len(history[key]) > HistoryCapacity
      THEN [history EXCEPT ![key] = SubSeq(@, 1, Len(@) - 1)]
      ELSE history

\* lines 69-70: if len(...) > 1000: popleft()
HistoryTrim(history, key) ==
    IF Len(history[key]) > HistoryCapacity
      THEN [history EXCEPT ![key] = Tail(@)]
      ELSE history

SamplerTrim(t) ==
    /\ samplerPc[t] = "trim"
    /\ metrics_history' = HistoryTrim(metrics_history, HistoryKeys[samplerKey[t]])
    /\ IF samplerKey[t] < Len(HistoryKeys)
          THEN /\ samplerKey' = [samplerKey EXCEPT ![t] = @ + 1]
               /\ samplerPc' = [samplerPc EXCEPT ![t] = "append"]
          ELSE /\ samplerKey' = [samplerKey EXCEPT ![t] = 0]
               /\ samplerPc' = [samplerPc EXCEPT ![t] = "publish"]
    /\ UNCHANGED <<now, host, current_metrics, collection_active, collection_thread,
                   task_counters, response_times, error_counts, task_executions,
                   samplerInterval, samplerMetrics, nSamples, appended, recPc,
                   recArgs, recTmp, nCalls, summary, exported, nReads, nStarts>>
    /\ UNCHANGED notCollector

\* line 72: self.current_metrics = system_metrics
SamplerPublish(t) ==
    /\ samplerPc[t] = "publish"
    /\ current_metrics' = samplerMetrics[t]
    /\ samplerPc' = [samplerPc EXCEPT ![t] = "sleep"]
    /\ UNCHANGED <<now, host, metrics_history, collection_active, collection_thread,
                   task_counters, response_times, error_counts, task_executions,
                   samplerInterval, samplerMetrics, samplerKey, nSamples, appended,
                   recPc, recArgs, recTmp, nCalls, summary, exported, nReads, nStarts>>
    /\ UNCHANGED notCollector

\* line 73: time.sleep(interval)
SamplerSleep(t) ==
    /\ samplerPc[t] = "sleep"
    /\ now' = now + samplerInterval[t]
    /\ samplerPc' = [samplerPc EXCEPT ![t] = "check"]
    /\ UNCHANGED <<host, metrics_history, current_metrics, collection_active,
                   collection_thread, task_counters, response_times, error_counts,
                   task_executions, samplerInterval, samplerMetrics, samplerKey,
                   nSamples, appended, recPc, recArgs, recTmp, nCalls, summary,
                   exported, nReads, nStarts>>
    /\ UNCHANGED notCollector

\* The host's load changes on its own.
HostChange ==
    /\ host' \in HostStates \ {host}
    /\ UNCHANGED <<now, metrics_history, current_metrics, collection_active,
                   collection_thread, task_counters, response_times, error_counts,
                   task_executions, samplerPc, samplerInterval, samplerMetrics,
                   samplerKey, nSamples, appended, recPc, recArgs, recTmp, nCalls,
                   summary, exported, nReads, nStarts>>
    /\ UNCHANGED notCollector

(***************************************************************************)
(* record_task_execution (lines 88-113), one step per read or write of the *)
(* shared dicts: "d[k] += 1" is a load followed by a store.                *)
(***************************************************************************)
\* A key that leaves the task type out.
RecKeyOfLocation(r) == CounterKey(recArgs[r].location, "analysis")

\* line 93: counter_key = f"{location}_{task_type}"
RecKey(r) == CounterKey(recArgs[r].location, recArgs[r].task_type)

\* reading d[k] of a defaultdict inserts the default for a missing key
Touch(d, keys, dflt) ==
    [k \in (DOMAIN d) \cup keys |-> IF k \in DOMAIN d THEN d[k] ELSE dflt]

RecordCall(r, task_type, response_time, success, location) ==
    /\ recPc[r] = "idle"
    /\ nCalls' = nCalls + 1
    /\ recArgs' = [recArgs EXCEPT ![r] =
                     [task_type |-> task_type, response_time |-> response_time,
                      success |-> success, location |-> location]]
    /\ recPc' = [recPc EXCEPT ![r] = "load_counter"]
    /\ UNCHANGED <<now, host, metrics_history, current_metrics, collection_active,
                   collection_thread, task_counters, response_times, error_counts,
                   task_executions, samplerPc, samplerInterval, samplerMetrics,
                   samplerKey, nSamples, appended, recTmp, summary, exported, nReads, nStarts>>
    /\ UNCHANGED notCollector

\* line 94, the load of self.task_counters[counter_key] += 1
RecLoadCounter(r) ==
    /\ recPc[r] = "load_counter"
    /\ task_counters' = Touch(task_counters, {RecKey(r)}, 0)
    /\ recTmp' = [recTmp EXCEPT ![r] = DictGet(task_counters, RecKey(r), 0)]
    /\ recPc' = [recPc EXCEPT ![r] = "store_counter"]
    /\ UNCHANGED <<now, host, metrics_history, current_metrics, collection_active,
                   collection_thread, response_times, error_counts, task_executions,
                   samplerPc, samplerInterval, samplerMetrics, samplerKey, nSamples,
                   appended, recArgs, nCalls, summary, exported, nReads, nStarts>>
    /\ UNCHANGED notCollector

\* line 94, the store; line 96 chooses the branch
RecStoreCounter(r) ==
    /\ recPc[r] = "store_counter"
    /\ task_counters' = DictPut(task_counters, RecKey(r), recTmp[r] + 1)
    /\ recPc' = [recPc EXCEPT ![r] =
                   IF recArgs[r].success THEN "append_time" ELSE "load_error"]
    /\ UNCHANGED <<now, host, metrics_history, current_metrics, collection_active,
                   collection_thread, response_times, error_counts, task_executions,
                   samplerPc, samplerInterval, samplerMetrics, samplerKey, nSamples,
                   appended, recArgs, recTmp, nCalls, summary, exported, nReads, nStarts>>
    /\ UNCHANGED notCollector

\* line 97: self.response_times[counter_key].append(response_time)
RecAppendTime(r) ==
    /\ recPc[r] = "append_time"
    /\ response_times' = DictPut(response_times, RecKey(r),
                                 Append(DictGet(response_times, RecKey(r), <<>>),
                                        recArgs[r].response_time))
    /\ recPc' = [recPc EXCEPT ![r] = "log"]
    /\ UNCHANGED <<now, host, metrics_history, current_metrics, collection_active,
                   collection_thread, task_counters, error_counts, task_executions,
                   samplerPc, samplerInterval, samplerMetrics, samplerKey, nSamples,
                   appended, recArgs, recTmp, nCalls, summary, exported, nReads, nStarts>>
    /\ UNCHANGED notCollector

\* line 99, the load of self.error_counts[counter_key] += 1
RecLoadError(r) ==
    /\ recPc[r] = "load_error"
    /\ error_counts' = Touch(error_counts, {RecKey(r)}, 0)
    /\ recTmp' = [recTmp EXCEPT ![r] = DictGet(error_counts, RecKey(r), 0)]
    /\ recPc' = [recPc EXCEPT ![r] = "store_error"]
    /\ UNCHANGED <<now, host, metrics_history, current_metrics, collection_active,
                   collection_thread, task_counters, response_times, task_executions,
                   samplerPc, samplerInterval, samplerMetrics, samplerKey, nSamples,
                   appended, recArgs, nCalls, summary, exported, nReads, nStarts>>
    /\ UNCHANGED notCollector

\* line 99, the store
RecStoreError(r) ==
    /\ recPc[r] = "store_error"
    /\ error_counts' = DictPut(error_counts, RecKey(r), recTmp[r] + 1)
    /\ recPc' = [recPc EXCEPT ![r] = "log"]
    /\ UNCHANGED <<now, host, metrics_history, current_metrics, collection_active,
                   collection_thread, task_counters, response_times, task_executions,
                   samplerPc, samplerInterval, samplerMetrics, samplerKey, nSamples,
                   appended, recArgs, recTmp, nCalls, summary, exported, nReads, nStarts>>
    /\ UNCHANGED notCollector

\* lines 102-113: the execution record, appended to task_executions.jsonl
ExecutionRecord(args, cm) ==
    [task_type |-> args.task_type, response_time |-> args.response_time,
     success |-> args.success, execution_location |-> args.location,
     system_cpu |-> DictGet(cm, "cpu_percent", 0),
     system_memory |-> DictGet(cm, "memory_percent", 0)]

RecLog(r) ==
    /\ recPc[r] = "log"
    /\ task_executions' = Append(task_executions,
                                 ExecutionRecord(recArgs[r], current_metrics))
    /\ recPc' = [recPc EXCEPT ![r] = "idle"]
    /\ UNCHANGED <<now, host, metrics_history, current_metrics, collection_active,
                   collection_thread, task_counters, response_times, error_counts,
                   samplerPc, samplerInterval, samplerMetrics, samplerKey, nSamples,
                   appended, recArgs, recTmp, nCalls, summary, exported, nReads, nStarts>>
    /\ UNCHANGED notCollector

(***************************************************************************)
(* get_performance_summary (lines 127-169) and export_metrics (177-194).   *)
(***************************************************************************)
\* lines 137-144
AverageResponseTimes(rt) ==
    [k \in {x \in DOMAIN rt : rt[x] # <<>>} |->
        [mean |-> Ratio(SeqSum(rt[k]), Len(rt[k])), min |-> SeqMin(rt[k]),
         max |-> SeqMax(rt[k]), count |-> Len(rt[k])]]

\* lines 147-150: total_attempts = self.task_counters[task_type] + error_count
TotalAttempts(tc, ec, k) == DictGet(tc, k, 0) + ec[k]

ErrorRates(tc, ec) ==
    [k \in {x \in DOMAIN ec : TotalAttempts(tc, ec, x) > 0} |->
        Ratio(ec[k], TotalAttempts(tc, ec, k))]

\* lines 153-167
SeriesValues(series) == [i \in 1..Len(series) |-> series[i][2]]

Utilization(series) ==
    [mean |-> Ratio(SeqSum(SeriesValues(series)), Len(series)),
     max |-> SeqMax(SeriesValues(series)), min |-> SeqMin(SeriesValues(series))]

\* A utilization summary computed for both series whether they hold samples or
\* not: the mean of an empty series is 0 / 0.
SystemUtilizationUnguarded(mh) ==
    LET cpu == DictGet(mh, "cpu_percent", <<>>)
        mem == DictGet(mh, "memory_percent", <<>>)
        Unguarded(series) ==
            IF series = <<>> THEN [mean |-> Ratio(0, 0), max |-> 0, min |-> 0]
                             ELSE Utilization(series)
    IN [n \in {"cpu", "memory"} |-> IF n = "cpu" THEN Unguarded(cpu) ELSE Unguarded(mem)]

SystemUtilization(mh) ==
    LET cpu == DictGet(mh, "cpu_percent", <<>>)
        mem == DictGet(mh, "memory_percent", <<>>)
        names == (IF cpu # <<>> THEN {"cpu"} ELSE {}) \cup
                 (IF mem # <<>> THEN {"memory"} ELSE {})
    IN [n \in names |-> IF n = "cpu" THEN Utilization(cpu) ELSE Utilization(mem)]

PerformanceSummary(tc, rt, ec, mh) ==
    [task_summary |-> tc,
     average_response_times |-> AverageResponseTimes(rt),
     error_rates |-> ErrorRates(tc, ec),
     system_utilization |-> SystemUtilization(mh),
     returned |-> TRUE]

\* What the call leaves behind in the defaultdicts it reads by subscript:
\* self.task_counters[task_type] (line 148) and self.metrics_history[...] (153, 161).
SummaryTouchesCounters(tc, ec) == Touch(tc, DOMAIN ec, 0)

SummaryTouchesHistory(mh) == Touch(mh, {"cpu_percent", "memory_percent"}, <<>>)

GetPerformanceSummary ==
    /\ summary' = PerformanceSummary(task_counters, response_times, error_counts,
                                     metrics_history)
    /\ task_counters' = SummaryTouchesCounters(task_counters, error_counts)
    /\ metrics_history' = SummaryTouchesHistory(metrics_history)
    /\ UNCHANGED <<now, host, current_metrics, collection_active, collection_thread,
                   response_times, error_counts, task_executions, samplerPc,
                   samplerInterval, samplerMetrics, samplerKey, nSamples, appended,
                   recPc, recArgs, recTmp, nCalls, exported, nStarts>>
    /\ nReads' = nReads + 1
    /\ UNCHANGED notCollector

\* An export that leaves the error counts out.
ExportDataWithoutErrors(tc, rt, ec, mh) ==
    [task_counters |-> tc, response_times |-> rt, error_counts |-> EmptyDict,
     system_metrics_history |-> mh,
     performance_summary |-> PerformanceSummary(tc, rt, EmptyDict, mh)]

\* lines 179-188: the dicts are copied first, the summary is computed last
ExportData(tc, rt, ec, mh) ==
    [task_counters |-> tc, response_times |-> rt, error_counts |-> ec,
     system_metrics_history |-> mh,
     performance_summary |-> PerformanceSummary(tc, rt, ec, mh)]

RECURSIVE Gcd(_, _)
Gcd(a, b) == IF b = 0 THEN a ELSE Gcd(b, a % b)

\* lines 190-192: json.dump writes a float as the shortest decimal that reads
\* back as the same float: of a quotient n / d the document keeps the value,
\* not the two numbers it was computed from.
JsonNumber(r) ==
    IF r[1] = 0 THEN Ratio(0, 1)
    ELSE Ratio(r[1] \div Gcd(r[1], r[2]), r[2] \div Gcd(r[1], r[2]))

JsonStats(stats) ==
    [f \in DOMAIN stats |-> IF f = "mean" THEN JsonNumber(stats[f]) ELSE stats[f]]

\* lines 190-192: what a JSON parser reads from the file json.dump wrote.  The
\* keys are strings already, ints stay ints, lists, deques and tuples are arrays.
JsonDocument(export_data) ==
    [export_data EXCEPT
       !.performance_summary =
           [@ EXCEPT
              !.average_response_times = [k \in DOMAIN @ |-> JsonStats(@[k])],
              !.error_rates = [k \in DOMAIN @ |-> JsonNumber(@[k])],
              !.system_utilization = [k \in DOMAIN @ |-> JsonStats(@[k])]]]

ExportMetrics ==
    /\ exported' = JsonDocument(ExportData(task_counters, response_times, error_counts,
                                           metrics_history))
    /\ task_counters' = SummaryTouchesCounters(task_counters, error_counts)
    /\ metrics_history' = SummaryTouchesHistory(metrics_history)
    /\ UNCHANGED <<now, host, current_metrics, collection_active, collection_thread,
                   response_times, error_counts, task_executions, samplerPc,
                   samplerInterval, samplerMetrics, samplerKey, nSamples, appended,
                   recPc, recArgs, recTmp, nCalls, summary, nStarts>>
    /\ nReads' = nReads + 1
    /\ UNCHANGED notCollector

(***************************************************************************)
(*                        SensorDataGenerator                              *)
(* Sensor values are integers in hundredths of a unit (20.5 is 2050);      *)
(* random.uniform(a, b) draws one of the ends of its range.                *)
(***************************************************************************)
\* lines 12-34
LocationProfiles ==
    [office  |-> [temp_range |-> <<2000, 2600>>, humidity_range |-> <<3000, 6000>>,
                  pressure_range |-> <<101000, 102000>>,
                  air_quality_range |-> <<5000, 20000>>,
                  activity_pattern |-> "business_hours"],
     kitchen |-> [temp_range |-> <<1800, 3500>>, humidity_range |-> <<4000, 8000>>,
                  pressure_range |-> <<100800, 101800>>,
                  air_quality_range |-> <<8000, 40000>>,
                  activity_pattern |-> "meal_times"],
     hallway |-> [temp_range |-> <<1900, 2400>>, humidity_range |-> <<3500, 5500>>,
                  pressure_range |-> <<101200, 102200>>,
                  air_quality_range |-> <<3000, 15000>>,
                  activity_pattern |-> "transit"]]

\* line 41: self.location_profiles.get(location, self.location_profiles['office'])
ProfileOf(location) ==
    IF location \in DOMAIN LocationProfiles THEN LocationProfiles[location]
                                            ELSE LocationProfiles["office"]

\* The locations generate_sensor_data is called with; "garage" has no profile.
GenLocations == {"office", "kitchen", "hallway", "garage"}

Hours == 0..23

Uniform(a, b) == {a, b}

Clamp(lo, hi, x) == IF x < lo THEN lo ELSE IF x > hi THEN hi ELSE x

\* 100 * sin((hour - 6) * pi / 12), rounded, for hour = 0..23
Sin100 == <<-100, -97, -87, -71, -50, -26, 0, 26, 50, 71, 87, 97,
            100, 97, 87, 71, 50, 26, 0, -26, -50, -71, -87, -97>>

MealHours == {7, 8, 12, 13, 18, 19, 20}

\* lines 138-160
ActivityVariation(pattern, hour) ==
    IF pattern = "business_hours"
      THEN IF 9 <= hour /\ hour <= 17 THEN Uniform(50, 200) ELSE Uniform(-50, 50)
    ELSE IF pattern = "meal_times"
      THEN IF hour \in MealHours THEN Uniform(200, 500) ELSE Uniform(-50, 50)
    ELSE IF pattern = "transit" THEN Uniform(-20, 80)
    ELSE {0}

\* lines 162-173
HumidityActivityVariation(pattern, hour) ==
    IF pattern = "meal_times"
      THEN IF hour \in MealHours THEN Uniform(500, 1500) ELSE Uniform(-200, 200)
      ELSE Uniform(-100, 300)

\* lines 175-193
AirQualityActivityVariation(pattern, hour) ==
    IF pattern = "business_hours"
      THEN IF 9 <= hour /\ hour <= 17 THEN Uniform(1000, 3000) ELSE Uniform(-500, 500)
    ELSE IF pattern = "meal_times"
      THEN IF hour \in MealHours THEN Uniform(2000, 6000) ELSE Uniform(-1000, 1000)
    ELSE Uniform(-500, 1500)

\* lines 66-82: the set of values _generate_temperature can return
GenerateTemperature(profile, hour) ==
    LET temp_min == profile.temp_range[1]
        temp_max == profile.temp_range[2]
        base_temp == (temp_min + temp_max) \div 2
        daily_variation == 2 * Sin100[hour + 1]
    IN { Clamp(temp_min - 200, temp_max + 200,
               base_temp + daily_variation + activity_variation + noise) :
           activity_variation \in ActivityVariation(profile.activity_pattern, hour),
           noise \in Uniform(-50, 50) }

\* lines 84-101
GenerateHumidity(profile, hour) ==
    LET hum_min == profile.humidity_range[1]
        hum_max == profile.humidity_range[2]
        base_humidity == (hum_min + hum_max) \div 2
        daily_variation == (-3 * Sin100[hour + 1]) \div 2
    IN { Clamp(hum_min - 500, hum_max + 500,
               base_humidity + daily_variation + activity_variation + noise) :
           activity_variation \in HumidityActivityVariation(profile.activity_pattern, hour),
           noise \in Uniform(-200, 200) }

\* lines 103-115: weather_cycle = 3 * sin(...) is some value of [-3, 3]
GeneratePressure(profile) ==
    LET press_min == profile.pressure_range[1]
        press_max == profile.pressure_range[2]
        base_pressure == (press_min + press_max) \div 2
    IN { Clamp(press_min - 500, press_max + 500,
               base_pressure + weather_cycle + noise) :
           weather_cycle \in Uniform(-300, 300), noise \in Uniform(-100, 100) }

\* lines 117-136
GenerateAirQuality(profile, hour) ==
    LET aq_min == profile.air_quality_range[1]
        aq_max == profile.air_quality_range[2]
        base_aq == (aq_min + aq_max) \div 2
    IN { Clamp(aq_min - 2000, aq_max + 5000,
               base_aq + activity_variation + ventilation_effect + noise) :
           activity_variation \in AirQualityActivityVariation(profile.activity_pattern, hour),
           ventilation_effect \in Uniform(-2000, -500) \cup {0},
           noise \in Uniform(-1000, 1000) }

\* lines 195-229: the set of (temperature, humidity, air_quality) triples
\* _inject_anomaly can return for one anomaly type
InjectAnomaly(anomaly_type, t, h, aq, location) ==
    IF anomaly_type = "sensor_drift"
      THEN { <<t + drift, h + drift * 2, aq>> : drift \in Uniform(50, 300) }
    ELSE IF anomaly_type = "environmental_event"
      THEN IF location = "kitchen"
             THEN { <<t + dt, h + dh, aq + da>> :
                      dt \in Uniform(300, 800), dh \in Uniform(1000, 2500),
                      da \in Uniform(5000, 15000) }
           ELSE IF location = "office"
             THEN { <<t + dt, h, aq + da>> :
                      dt \in Uniform(-500, 500), da \in Uniform(2000, 8000) }
           ELSE { <<t + dt, h + dh, aq>> :
                      dt \in Uniform(-300, 300), dh \in Uniform(-1000, 1000) }
    ELSE { <<nt, h, na>> : nt \in {t} \cup Uniform(-1000, 5000),
                           na \in {aq} \cup Uniform(50000, 100000) }

AnomalyTypes == {"sensor_drift", "environmental_event", "equipment_malfunction"}

\* round(x, 2) of a value that is a whole number of hundredths
Round2(x) == x

\* No call of generate_sensor_data is in progress.
GenIdle ==
    /\ genPc = "idle"
    /\ genLocation = "office"
    /\ genHour = 0
    /\ temperature = 0
    /\ humidity = 0
    /\ pressure = 0
    /\ air_quality = 0
    /\ genAnomaly = "none"
    /\ reading = EmptyDict

\* generate_sensor_data(location, timestamp) has been called.
GenInit ==
    /\ genPc = "call"
    /\ genLocation \in GenLocations
    /\ genHour \in Hours
    /\ temperature = 0
    /\ humidity = 0
    /\ pressure = 0
    /\ air_quality = 0
    /\ genAnomaly = "none"
    /\ reading = EmptyDict

\* lines 44-47
GenBaseValues ==
    /\ genPc = "call"
    /\ temperature' \in GenerateTemperature(ProfileOf(genLocation), genHour)
    /\ humidity' \in GenerateHumidity(ProfileOf(genLocation), genHour)
    /\ pressure' \in GeneratePressure(ProfileOf(genLocation))
    /\ air_quality' \in GenerateAirQuality(ProfileOf(genLocation), genHour)
    /\ genPc' = "anomaly"
    /\ UNCHANGED <<genLocation, genHour, genAnomaly, reading>>
    /\ UNCHANGED notGen

\* lines 50-53: if random.random() < 0.05
GenAnomaly ==
    /\ genPc = "anomaly"
    /\ \/ UNCHANGED <<temperature, humidity, air_quality, genAnomaly>>
       \/ \E anomaly_type \in AnomalyTypes :
            \E out \in InjectAnomaly(anomaly_type, temperature, humidity,
                                     air_quality, genLocation) :
                /\ temperature' = out[1]
                /\ humidity' = out[2]
                /\ air_quality' = out[3]
                /\ genAnomaly' = anomaly_type
    /\ genPc' = "return"
    /\ UNCHANGED <<genLocation, genHour, pressure, reading>>
    /\ UNCHANGED notGen

\* lines 55-64
SensorReading(location, t, h, p, aq, battery, signal) ==
    [location |-> location, temperature |-> Round2(t), humidity |-> Round2(h),
     pressure |-> Round2(p), air_quality |-> Round2(aq),
     battery_level |-> battery, signal_strength |-> signal]

GenReturn ==
    /\ genPc = "return"
    /\ \E battery \in Uniform(8500, 10000), signal \in Uniform(-6000, -3000) :
          reading' = SensorReading(genLocation, temperature, humidity, pressure,
                                   air_quality, battery, signal)
    /\ genPc' = "returned"
    /\ UNCHANGED <<genLocation, genHour, temperature, humidity, pressure,
                   air_quality, genAnomaly>>
    /\ UNCHANGED notGen

(***************************************************************************)
(*          Exceptions of the requests and the except clauses              *)
(***************************************************************************)
\* What requests.post / requests.get raises for one outcome of the request
RequestRaises(kind) ==
    IF kind = "connerr" THEN "ConnectionError"
    ELSE IF kind = "timeout" THEN "Timeout"
    ELSE "none"

\* scenario_1_normal.py lines 119-127, scenario_3_loadbalance.py lines 205-214:
\* an answer other than 200 is turned into an exception
StatusRaises(kind) == IF kind = "http500" THEN "Exception" ELSE RequestRaises(kind)

\* Exception classes: those of requests, the one of raise Exception(...) and
\* the TimeoutError of future.result.
ExceptionClasses == {"Exception", "ConnectionError", "Timeout", "TimeoutError",
                     "AttributeError", "Empty"}

\* SystemExit and asyncio.CancelledError derive from BaseException, not from
\* Exception.
BaseExceptionClasses == ExceptionClasses \cup {"SystemExit", "CancelledError"}

\* An except clause that catches nothing.
CatchesNothing(clause, exception) == FALSE

\* "except:" catches every class, "except Exception:" every class derived from
\* Exception, "except queue.Empty:" that class
Catches(clause, exception) ==
    \/ clause = "except" /\ exception \in BaseExceptionClasses
    \/ clause = "except Exception" /\ exception \in ExceptionClasses
    \/ clause = "except queue.Empty" /\ exception = "Empty"

Absorbed(clause, exception) == exception = "none" \/ Catches(clause, exception)

(***************************************************************************)
(*              NormalOperationScenario (scenario_1_normal.py)             *)
(* Time is in seconds; response times are in milliseconds.                 *)
(***************************************************************************)
\* line 62: ThreadPoolExecutor(max_workers=3)
S1PoolSize == 3

\* A pool that starts every submitted call at once.
WorkerAlwaysFree(executing, max_workers) == TRUE

\* lines 62 and 72: a submitted call starts at once when fewer than max_workers
\* calls are executing, and waits in the queue of the pool otherwise
WorkerFree(executing, max_workers) == executing < max_workers
\* line 76: future.result(timeout=30)
S1ResultTimeout == 30
\* line 114: requests.post(..., timeout=25)
S1RequestTimeout == 25

\* Bound: the duration run is called with.
S1Duration == 10

\* lines 54-60, 20, 68
S1TaskTypes == {"environmental_analysis", "anomaly_detection", "air_quality_assessment",
                "comfort_optimization", "predictive_maintenance"}
S1Locations == {"office", "kitchen", "hallway"}
S1Priorities == {"low", "medium", "high"}

\* What the supervisor endpoint does with one POST /api/task:
\*   ok200    answers HTTP 200 after one second
\*   http500  answers HTTP 500 after one second
\*   connerr  the connection fails after one second
\*   timeout  sends nothing: requests raises Timeout after 25 s
\*   slow     keeps sending bytes: the call is still running after 30 s
DispatchKinds == {"ok200", "http500", "connerr", "timeout", "slow"}

QuickLatency == 1

\* A loop that takes one more turn when the elapsed time equals the duration.
LoopGoesOnAtDeadline(elapsed, duration) == elapsed <= duration

\* lines 63 and 141, scenario_3_loadbalance.py line 127 and
\* scenario_2_failover.py lines 102 and 220: the test of a scenario loop,
\* while time.time() - start_time < duration
LoopGoesOn(elapsed, duration) == elapsed < duration

DispatchLatency(kind, request_timeout) ==
    IF kind = "timeout" THEN request_timeout ELSE QuickLatency

NoTask == [type |-> "", location |-> "", priority |-> ""]
NoFuture == [state |-> "none", kind |-> ""]

\* lines 33-43
S1EmptyResults ==
    [tasks_completed |-> 0, tasks_failed |-> 0, response_times |-> <<>>,
     cpu_usage |-> <<>>, memory_usage |-> <<>>, network_overhead |-> <<>>,
     accuracy_scores |-> <<>>, energy_consumption |-> <<>>]

NoSensor == [pc |-> "off", now |-> 0, sent |-> 0]

S1Idle ==
    /\ s1Pc = "idle"
    /\ s1Duration = 0
    /\ s1Now = 0
    /\ s1Task = NoTask
    /\ s1Future = NoFuture
    /\ s1Abandoned = [running |-> 0, queued |-> 0]
    /\ s1Results = EmptyDict
    /\ s1Sensor = NoSensor

\* lines 28-51: run(duration) up to the loop; the sensor thread is started
S1Run(duration) ==
    /\ s1Pc = "idle"
    /\ s1Duration' = duration
    /\ s1Now' = 0
    /\ s1Results' = S1EmptyResults
    /\ s1Sensor' = [pc |-> "send", now |-> 0, sent |-> 0]
    /\ s1Pc' = "check"
    /\ UNCHANGED <<s1Task, s1Future, s1Abandoned>>
    /\ UNCHANGED notS1

\* lines 63-73: the loop test, the random task, executor.submit.  A submitted
\* call starts at once when a worker is free and is queued otherwise.
S1Submit ==
    /\ s1Pc = "check"
    /\ LoopGoesOn(s1Now, s1Duration)
    /\ \E ty \in S1TaskTypes, l \in S1Locations, pr \in S1Priorities :
          s1Task' = [type |-> ty, location |-> l, priority |-> pr]
    /\ IF WorkerFree(s1Abandoned.running, S1PoolSize)
         THEN \E kind \in DispatchKinds : s1Future' = [state |-> "running", kind |-> kind]
         ELSE s1Future' = [state |-> "queued", kind |-> ""]
    /\ s1Pc' = "wait"
    /\ UNCHANGED <<s1Duration, s1Now, s1Abandoned, s1Results>>
    /\ UNCHANGED s1Sensor
    /\ UNCHANGED notS1

\* lines 174-189: _calculate_accuracy, for one draw of random.uniform(-10, 10)
CalculateAccuracy(task, noise) ==
    LET base == 85 + (IF task.location \in {"office", "kitchen", "hallway"} THEN 5 ELSE 0)
        bonus == IF task.priority = "medium" THEN 2
                 ELSE IF task.priority = "high" THEN 5 ELSE 0
    IN Clamp(0, 100, base + bonus + noise)

\* lines 105-135: the dicts _execute_task can return for one outcome of its POST
ExecuteTask(task, kind) ==
    IF kind = "ok200"
      THEN { [response_time |-> 1000 * DispatchLatency(kind, S1RequestTimeout),
              accuracy |-> CalculateAccuracy(task, noise), success |-> TRUE] :
               noise \in Uniform(-10, 10) }
      ELSE { [response_time |-> 1000 * DispatchLatency(kind, S1RequestTimeout),
              accuracy |-> 0, success |-> FALSE] }

\* lines 75-79: future.result(timeout=30) returned the dict of _execute_task
S1TaskReturned(results, task_result) ==
    [results EXCEPT !.tasks_completed = @ + 1,
                    !.response_times = Append(@, task_result.response_time),
                    !.accuracy_scores = Append(@, task_result.accuracy)]

\* lines 81-83: future.result raised
S1TaskRaised(results) == [results EXCEPT !.tasks_failed = @ + 1]

\* lines 75-83, for a call that ends within the 30 s of the wait.  An
\* exception that the clause of line 129 lets pass is set on the future;
\* future.result raises it again and the clause of line 81, which is the same,
\* lets it pass as well.
S1Result ==
    /\ s1Pc = "wait"
    /\ s1Future.state = "running"
    /\ s1Future.kind # "slow"
    /\ IF Absorbed("except Exception", StatusRaises(s1Future.kind))
         THEN /\ \E task_result \in ExecuteTask(s1Task, s1Future.kind) :
                    s1Results' = S1TaskReturned(s1Results, task_result)
              /\ s1Pc' = "metrics"
         ELSE /\ s1Results' = s1Results
              /\ s1Pc' = "raised"
    /\ s1Now' = s1Now + DispatchLatency(s1Future.kind, S1RequestTimeout)
    /\ s1Future' = NoFuture
    /\ s1Task' = NoTask
    /\ UNCHANGED <<s1Duration, s1Abandoned>>
    /\ UNCHANGED s1Sensor
    /\ UNCHANGED notS1

\* lines 75-83, for a call that is still running, or still queued, after 30 s:
\* future.result raises TimeoutError and the call is left to the pool.
S1ResultTimedOut ==
    /\ s1Pc = "wait"
    /\ \/ s1Future.state = "running" /\ s1Future.kind = "slow"
       \/ s1Future.state = "queued"
    /\ IF Catches("except Exception", "TimeoutError")
         THEN /\ s1Results' = S1TaskRaised(s1Results)
              /\ s1Pc' = "metrics"
         ELSE /\ s1Results' = s1Results
              /\ s1Pc' = "raised"
    /\ s1Abandoned' = IF s1Future.state = "running"
                        THEN [s1Abandoned EXCEPT !.running = @ + 1]
                        ELSE [s1Abandoned EXCEPT !.queued = @ + 1]
    /\ s1Now' = s1Now + S1ResultTimeout
    /\ s1Future' = NoFuture
    /\ s1Task' = NoTask
    /\ UNCHANGED s1Duration
    /\ UNCHANGED s1Sensor
    /\ UNCHANGED notS1

\* An abandoned call ends and frees its worker, which takes the next queued call:
\* the one being waited for, if it is queued, else an abandoned one.
S1AbandonedEnds ==
    /\ s1Abandoned.running > 0
    /\ IF s1Future.state = "queued"
         THEN /\ \E kind \in DispatchKinds :
                    s1Future' = [state |-> "running", kind |-> kind]
              /\ s1Abandoned' = [s1Abandoned EXCEPT !.running = @ - 1]
         ELSE /\ s1Abandoned' = IF s1Abandoned.queued > 0
                                  THEN [s1Abandoned EXCEPT !.queued = @ - 1]
                                  ELSE [s1Abandoned EXCEPT !.running = @ - 1]
              /\ UNCHANGED s1Future
    /\ UNCHANGED <<s1Pc, s1Duration, s1Now, s1Task, s1Results>>
    /\ UNCHANGED s1Sensor
    /\ UNCHANGED notS1

\* lines 156-172: what _collect_system_metrics can return
S1ServerMetrics == [cpu |-> 30, memory |-> 40, network |-> 200, energy |-> 10]
S1DefaultMetrics == [cpu |-> 20, memory |-> 30, network |-> 100, energy |-> 5]

\* lines 86-89: the keys run reads of the dict, in this order
S1MetricKeys == <<"cpu", "memory", "network", "energy">>

\* What GET /api/metrics can give: no answer, an answer other than 200, a 200
\* whose body is no JSON, a 200 whose JSON object has the keys of fields.
S1CompleteAnswers ==
    { [kind |-> k, fields |-> {}] : k \in {"connerr", "timeout", "http500", "bad_json"} }
      \cup { [kind |-> "ok200", fields |-> {"cpu", "memory", "network", "energy"}] }

S1MetricsAnswers ==
    S1CompleteAnswers
      \cup { [kind |-> "ok200", fields |-> f] :
               f \in { {}, {"cpu"}, {"memory", "network", "energy"}, {"cpu", "memory"},
                       {"cpu_percent", "memory_percent"} } }

\* lines 156-172: _collect_system_metrics; the dict it returns.  A 200 gives
\* response.json() as it is (line 162); the bare except of line 163 takes the
\* exception of the request and the ValueError of a body that is no JSON, and
\* these and the other statuses reach the defaults of lines 167-172.
S1CollectSystemMetrics(answer) ==
    IF answer.kind = "ok200"
      THEN [k \in answer.fields |-> IF k \in DOMAIN S1ServerMetrics
                                      THEN S1ServerMetrics[k] ELSE 0]
      ELSE S1DefaultMetrics

\* lines 86-89: how many of the subscripts metrics['cpu'], ['memory'],
\* ['network'], ['energy'] are read before one raises KeyError
S1KeysRead(metrics) ==
    IF \A i \in 1..4 : S1MetricKeys[i] \in DOMAIN metrics
      THEN 4
      ELSE (CHOOSE i \in 1..4 : /\ S1MetricKeys[i] \notin DOMAIN metrics
                                /\ \A j \in 1..(i - 1) : S1MetricKeys[j] \in DOMAIN metrics) - 1

\* lines 85-90, with a supervisor whose answers are those of answers; the
\* KeyError of a missing key stands in no try and leaves run
S1CollectMetrics(answers) ==
    /\ s1Pc = "metrics"
    /\ \E answer \in answers :
          LET metrics == S1CollectSystemMetrics(answer)
              n == S1KeysRead(metrics)
          IN /\ s1Results' = [s1Results EXCEPT
                  !.cpu_usage = IF n >= 1 THEN Append(@, metrics["cpu"]) ELSE @,
                  !.memory_usage = IF n >= 2 THEN Append(@, metrics["memory"]) ELSE @,
                  !.network_overhead = IF n >= 3 THEN Append(@, metrics["network"]) ELSE @,
                  !.energy_consumption = IF n >= 4 THEN Append(@, metrics["energy"]) ELSE @]
             /\ s1Pc' = IF n = 4 THEN "sleep" ELSE "raised"
    /\ UNCHANGED <<s1Duration, s1Now, s1Task, s1Future, s1Abandoned>>
    /\ UNCHANGED s1Sensor
    /\ UNCHANGED notS1

\* line 93: time.sleep(random.uniform(2, 8))
S1Sleep ==
    /\ s1Pc = "sleep"
    /\ \E pause \in Uniform(2, 8) : s1Now' = s1Now + pause
    /\ s1Pc' = "check"
    /\ UNCHANGED <<s1Duration, s1Task, s1Future, s1Abandoned, s1Results>>
    /\ UNCHANGED s1Sensor
    /\ UNCHANGED notS1

\* line 149: requests.post(..., timeout=5)
S1SensorTimeout == 5

\* What the supervisor does with one POST /api/sensor_data
SensorKinds == {"ok200", "http500", "connerr", "timeout"}

\* lines 141-152: the loop test at the start of a round, then one turn of the
\* loop over the locations: one POST inside its own try
S1SensorSend ==
    /\ s1Sensor.pc = "send"
    /\ s1Sensor.sent > 0 \/ LoopGoesOn(s1Sensor.now, s1Duration)
    /\ \E kind \in SensorKinds :
          s1Sensor' = IF Absorbed("except", RequestRaises(kind))
                        THEN [pc |-> IF s1Sensor.sent + 1 = Cardinality(S1Locations)
                                       THEN "sleep" ELSE "send",
                              now |-> s1Sensor.now + DispatchLatency(kind, S1SensorTimeout),
                              sent |-> s1Sensor.sent + 1]
                        ELSE [s1Sensor EXCEPT !.pc = "died"]
    /\ UNCHANGED <<s1Pc, s1Duration, s1Now, s1Task, s1Future, s1Abandoned, s1Results>>
    /\ UNCHANGED notS1

\* line 154: time.sleep(1)
S1SensorSleep ==
    /\ s1Sensor.pc = "sleep"
    /\ s1Sensor' = [pc |-> "send", now |-> s1Sensor.now + 1, sent |-> 0]
    /\ UNCHANGED <<s1Pc, s1Duration, s1Now, s1Task, s1Future, s1Abandoned, s1Results>>
    /\ UNCHANGED notS1

\* line 141: the duration of the thread has elapsed, its function returns
S1SensorEnd ==
    /\ s1Sensor.pc = "send"
    /\ s1Sensor.sent = 0
    /\ ~LoopGoesOn(s1Sensor.now, s1Duration)
    /\ s1Sensor' = [pc |-> "ended", now |-> 0, sent |-> 0]
    /\ UNCHANGED <<s1Pc, s1Duration, s1Now, s1Task, s1Future, s1Abandoned, s1Results>>
    /\ UNCHANGED notS1

\* The thread shares no variable with the loop of run, so the order of their
\* steps makes no difference to either: the runs are explored with the steps of
\* the thread first.
SensorQuiet == s1Sensor.pc \notin {"send", "sleep"}

\* A summary whose success_rate is the share of the failed tasks.
S1SummaryOfFailures(results) ==
    LET done == results.tasks_completed + results.tasks_failed
    IN [avg_response_time |-> Ratio(0, 1),
        success_rate |->
            IF done > 0 THEN Ratio(results.tasks_failed, done) ELSE Ratio(0, 1),
        avg_cpu_usage |-> Ratio(0, 1),
        total_energy |-> SeqSum(results.energy_consumption)]

\* lines 95-99
S1Summary(results) ==
    LET done == results.tasks_completed + results.tasks_failed
    IN [avg_response_time |->
            IF results.response_times # <<>>
              THEN Ratio(SeqSum(results.response_times), Len(results.response_times))
              ELSE Ratio(0, 1),
        success_rate |->
            IF done > 0 THEN Ratio(results.tasks_completed, done) ELSE Ratio(0, 1),
        avg_cpu_usage |->
            IF results.cpu_usage # <<>>
              THEN Ratio(SeqSum(results.cpu_usage), Len(results.cpu_usage))
              ELSE Ratio(0, 1),
        total_energy |-> SeqSum(results.energy_consumption)]

\* lines 62-103: the loop ends, the with block waits for every submitted call,
\* the summary is computed and run returns
S1Return ==
    /\ s1Pc = "check"
    /\ ~LoopGoesOn(s1Now, s1Duration)
    /\ s1Abandoned.running = 0
    /\ s1Abandoned.queued = 0
    /\ s1Results' = [k \in (DOMAIN s1Results) \cup (DOMAIN S1Summary(s1Results)) |->
                        IF k \in DOMAIN s1Results THEN s1Results[k]
                                                  ELSE S1Summary(s1Results)[k]]
    /\ s1Pc' = "returned"
    /\ UNCHANGED <<s1Duration, s1Now, s1Task, s1Future, s1Abandoned>>
    /\ UNCHANGED s1Sensor
    /\ UNCHANGED notS1

(***************************************************************************)
(*            LoadBalancingScenario (scenario_3_loadbalance.py)            *)
(* Time and response times are in milliseconds.                            *)
(***************************************************************************)
\* line 26
LoadThreshold == 70
\* line 148: future.result(timeout=30)
LbResultTimeout == 30000
\* line 200 and line 240: the timeouts of the two POSTs
LbSupervisorTimeout == 20000
LbRpiTimeout == 25000

\* Bound: the duration run is called with.
LbDuration == 70000

\* lines 51-56 and 104-109: the phases, their durations and task rates
LoadPhases ==
    << [name |-> "normal_load", duration |-> 60000, rate |-> 2],
       [name |-> "increasing_load", duration |-> 90000, rate |-> 5],
       [name |-> "high_load", duration |-> 90000, rate |-> 10],
       [name |-> "recovery", duration |-> 60000, rate |-> 3] >>

\* lines 167-181
ComplexityOf(phase_name) ==
    IF phase_name = "increasing_load" THEN "medium"
    ELSE IF phase_name = "high_load" THEN "complex" ELSE "simple"

LbTaskTypes(complexity) ==
    IF complexity = "simple" THEN {"sensor_reading", "basic_analysis"}
    ELSE IF complexity = "medium" THEN {"anomaly_detection", "trend_analysis", "prediction"}
    ELSE {"deep_analysis", "ml_inference", "optimization", "correlation_analysis"}

\* lines 21-25: the peers, in the order of the rpi_endpoints dict
RpiOrder == <<"office", "kitchen", "hallway">>

RpiSet == {RpiOrder[i] : i \in 1..Len(RpiOrder)}

\* s without its elements equal to x
RECURSIVE SeqWithout(_, _)
SeqWithout(s, x) ==
    IF s = <<>> THEN <<>>
    ELSE IF Head(s) = x THEN SeqWithout(Tail(s), x)
    ELSE <<Head(s)>> \o SeqWithout(Tail(s), x)

\* An alternative order of fallback: the configured order, whatever the target.
EndpointsInConfiguredOrder(target_location) == RpiOrder

\* line 233: [target_endpoint] + [ep for ep in rpi_endpoints.values() if ep != target_endpoint]
EndpointsToTry(target_location) ==
    <<target_location>> \o SeqWithout(RpiOrder, target_location)

\* What GET /api/system_metrics of the supervisor can give, and the local reading
\* of psutil.cpu_percent used when it fails (lines 265-276).
CpuLevels == {70, 90}

MetricsResponses ==
    { [status |-> 200, has_cpu |-> TRUE, cpu_percent |-> c] : c \in CpuLevels }
      \cup { [status |-> 200, has_cpu |-> FALSE, cpu_percent |-> 0],
             [status |-> 500, has_cpu |-> FALSE, cpu_percent |-> 0] }

GetSupervisorCpuUsage(response, local_cpu) ==
    IF response.status = 200
      THEN IF response.has_cpu THEN response.cpu_percent ELSE 0
      ELSE local_cpu

\* What an endpoint does with one POST: it answers 200 or 500 or the connection
\* fails after LbQuick ms, it lets the request time out, or (supervisor only) it
\* answers 200 after LbSlow ms, later than the wait for the result lasts.
LbQuick == 15000
LbSlow == 40000

\* The sample of random.uniform(a, b) the runs are explored with.
AccuracyDraw(a, b) == {a}

RpiAttemptKinds == {"ok200", "http500", "connerr", "timeout"}
SupervisorKinds == {"ok200", "http500", "connerr", "timeout", "slow"}

LbLatency(kind, request_timeout) ==
    IF kind = "timeout" THEN request_timeout
    ELSE IF kind = "slow" THEN LbSlow ELSE LbQuick

NoResult == [response_time |-> 0, accuracy |-> 0, execution_location |-> "", error |-> ""]

NoLbTask == [type |-> "", complexity |-> "", location |-> ""]

\* lines 114-121
LbEmptyPhaseResults ==
    [supervisor_tasks |-> 0, rpi_tasks |-> 0, load_shedding_events |-> 0,
     response_times |-> <<>>, cpu_usage |-> <<>>, accuracy_scores |-> <<>>]

\* lines 32-44
LbEmptyResults ==
    [phases |-> <<>>, load_shedding_events |-> 0, tasks_on_supervisor |-> 0,
     tasks_on_rpis |-> 0, cpu_usage_timeline |-> <<>>,
     response_times_supervisor |-> <<>>, response_times_rpi |-> <<>>,
     accuracy_supervisor |-> <<>>, accuracy_rpi |-> <<>>, energy_consumption |-> <<>>]

NoMonitor == [pc |-> "off", due |-> 0]

LbIdle ==
    /\ lbPc = "idle"
    /\ lbDuration = 0
    /\ lbNow = 0
    /\ lbPhase = 0
    /\ lbPhaseStart = 0
    /\ lbPhaseDuration = 0
    /\ lbTask = NoLbTask
    /\ lbCpu = 0
    /\ lbTarget = ""
    /\ lbCalls = {}
    /\ lbPhaseResults = EmptyDict
    /\ lbResults = EmptyDict
    /\ lbMonitor = NoMonitor

\* lines 28-66: run(duration) up to the loop over load_phases; lines 60-66
\* start the monitor thread, whose start_time is taken as that of run
LbRun(duration) ==
    /\ lbPc = "idle"
    /\ lbDuration' = duration
    /\ lbNow' = 0
    /\ lbPhase' = 1
    /\ lbResults' = LbEmptyResults
    /\ lbMonitor' = [pc |-> "test", due |-> 0]
    /\ lbPc' = "phase_check"
    /\ UNCHANGED <<lbPhaseStart, lbPhaseDuration, lbTask, lbCpu, lbTarget, lbCalls,
                   lbPhaseResults>>
    /\ UNCHANGED notLbRun

\* line 293: time.sleep(5)
MonitorSleep == 5000

\* How long the requests of lines 286-289 take together: all answer at once, or
\* the RPi requests run into their timeouts.
MonitorQuick == 1000
MonitorSlow == 20000

\* line 282: the loop test of _monitor_system_load, and the start of the
\* requests of lines 284-289
LbMonitorBegin ==
    /\ lbMonitor.pc = "test"
    /\ IF lbMonitor.due < lbDuration
         THEN \E latency \in {MonitorQuick, MonitorSlow} :
                 lbMonitor' = [pc |-> "sampling", due |-> lbMonitor.due + latency]
         ELSE lbMonitor' = [pc |-> "ended", due |-> 0]
    /\ UNCHANGED <<lbPc, lbDuration, lbNow, lbPhase, lbPhaseStart, lbPhaseDuration,
                   lbTask, lbCpu, lbTarget, lbCalls, lbPhaseResults, lbResults>>
    /\ UNCHANGED notLbRun

\* lines 284-293: the metrics dict is appended (its supervisor_cpu is kept), and
\* the thread sleeps
LbMonitorAppend ==
    /\ lbMonitor.pc = "sampling"
    /\ \E response \in MetricsResponses, local_cpu \in CpuLevels :
          lbResults' = [lbResults EXCEPT
                          !.cpu_usage_timeline =
                              Append(@, GetSupervisorCpuUsage(response, local_cpu))]
    /\ lbMonitor' = [pc |-> "test", due |-> lbMonitor.due + MonitorSleep]
    /\ UNCHANGED <<lbPc, lbDuration, lbNow, lbPhase, lbPhaseStart, lbPhaseDuration,
                   lbTask, lbCpu, lbTarget, lbCalls, lbPhaseResults>>
    /\ UNCHANGED notLbRun

\* The next step of the monitor thread is due at the time run has reached, or
\* run has returned and time goes on.
MonitorDue ==
    /\ lbMonitor.pc \in {"test", "sampling"}
    /\ lbMonitor.due <= lbNow \/ lbPc = "returned"

\* No step of the monitor thread is due at the time run has reached.
MonitorQuiet == ~(lbMonitor.pc \in {"test", "sampling"} /\ lbMonitor.due <= lbNow)

Min(a, b) == IF a <= b THEN a ELSE b
Max(a, b) == IF a >= b THEN a ELSE b

\* lines 68-83 and 114-126: the next phase starts
LbPhaseBegin ==
    /\ lbPc = "phase_check"
    /\ lbPhase <= Len(LoadPhases)
    /\ lbNow < lbDuration
    /\ lbPhaseStart' = lbNow
    /\ lbPhaseDuration' = Min(LoadPhases[lbPhase].duration, lbDuration - lbNow)
    /\ lbPhaseResults' = LbEmptyPhaseResults
    /\ lbPc' = "loop"
    /\ UNCHANGED <<lbDuration, lbNow, lbPhase, lbTask, lbCpu, lbTarget, lbCalls, lbResults>>
    /\ UNCHANGED notLb

\* The decision with the threshold itself counted as overload.
ShouldOffloadAtThreshold(current_cpu) == current_cpu >= LoadThreshold

\* line 136: the offload decision
ShouldOffload(current_cpu) == current_cpu > LoadThreshold

NewCall(target, location, start) ==
    [target |-> target, location |-> location, start |-> start, elapsed |-> 0,
     tried |-> <<>>, answers |-> <<>>, state |-> "running", result |-> NoResult,
     awaited |-> TRUE]

\* line 126: ThreadPoolExecutor(max_workers=task_rate * 2)
LbPoolSize(task_rate) == task_rate * 2

\* The calls of the pool that are executing at the time run has reached.
LbExecuting ==
    {call \in lbCalls : call.state = "running" \/ call.start + call.elapsed > lbNow}

\* lines 127-144: the loop test, the task, the CPU sample, the decision, the
\* submit.  The call starts at once: one call is submitted per loop turn, a turn
\* with a call that outlives its wait takes 30 s, and no call lasts longer than
\* the three RPi timeouts, so fewer calls overlap than the pool has workers.
LbDispatch ==
    /\ lbPc = "loop"
    /\ LoopGoesOn(lbNow - lbPhaseStart, lbPhaseDuration)
    /\ \E ty \in LbTaskTypes(ComplexityOf(LoadPhases[lbPhase].name)), l \in RpiSet :
          lbTask' = [type |-> ty, complexity |-> ComplexityOf(LoadPhases[lbPhase].name),
                     location |-> l]
    /\ \E response \in MetricsResponses, local_cpu \in CpuLevels :
          lbCpu' = GetSupervisorCpuUsage(response, local_cpu)
    /\ lbTarget' = IF ShouldOffload(lbCpu') THEN "rpi" ELSE "supervisor"
    /\ lbPhaseResults' =
          [lbPhaseResults EXCEPT
             !.cpu_usage = Append(@, lbCpu'),
             !.load_shedding_events = IF ShouldOffload(lbCpu') THEN @ + 1 ELSE @]
    /\ lbCalls' = lbCalls \cup {NewCall(lbTarget', lbTask'.location, lbNow)}
    /\ lbPc' = "wait"
    /\ UNCHANGED <<lbDuration, lbNow, lbPhase, lbPhaseStart, lbPhaseDuration, lbResults>>
    /\ UNCHANGED notLb

\* lines 192-222: _execute_on_supervisor, in a pool worker.  A call whose
\* exception passes the clause of line 216 has failed: its future holds the
\* exception.
ExecuteOnSupervisor(call, kind, accuracy) ==
    [call EXCEPT
       !.elapsed = @ + LbLatency(kind, LbSupervisorTimeout),
       !.tried = Append(@, "supervisor"),
       !.answers = Append(@, kind),
       !.state = IF Absorbed("except Exception", StatusRaises(kind))
                   THEN "done" ELSE "failed",
       !.result = IF kind \in {"ok200", "slow"}
                    THEN [response_time |-> call.elapsed + LbLatency(kind, LbSupervisorTimeout),
                          accuracy |-> accuracy, execution_location |-> "supervisor",
                          error |-> ""]
                    ELSE [response_time |-> call.elapsed + LbLatency(kind, LbSupervisorTimeout),
                          accuracy |-> 0, execution_location |-> "supervisor",
                          error |-> kind]]

LbSupervisorCall ==
    \E call \in lbCalls :
        /\ call.target = "supervisor"
        /\ call.state = "running"
        /\ \E kind \in SupervisorKinds, accuracy \in AccuracyDraw(85, 95) :
              lbCalls' = (lbCalls \ {call}) \cup {ExecuteOnSupervisor(call, kind, accuracy)}
        /\ UNCHANGED <<lbPc, lbDuration, lbNow, lbPhase, lbPhaseStart, lbPhaseDuration,
                       lbTask, lbCpu, lbTarget, lbPhaseResults, lbResults>>
        /\ UNCHANGED notLb

\* lines 235-263: one turn of the loop over endpoints_to_try of _execute_on_rpi
\* (and the return after the loop when this was the last endpoint); the try of
\* lines 236-255 is inside the loop
RpiAttempt(call, kind, accuracy) ==
    LET endpoints == EndpointsToTry(call.location)
        endpoint == endpoints[Len(call.tried) + 1]
        elapsed == call.elapsed + LbLatency(kind, LbRpiTimeout)
        tried == Append(call.tried, endpoint)
        posted == [call EXCEPT !.elapsed = elapsed, !.tried = tried,
                               !.answers = Append(@, kind)]
    IN IF ~Absorbed("except Exception", RequestRaises(kind))
         THEN [posted EXCEPT !.state = "failed"]
       ELSE IF kind = "ok200"
         THEN [posted EXCEPT !.state = "done",
                             !.result = [response_time |-> elapsed, accuracy |-> accuracy,
                                         execution_location |-> "rpi", error |-> ""]]
       ELSE IF Len(tried) = Len(endpoints)
         THEN [posted EXCEPT !.state = "done",
                             !.result = [response_time |-> elapsed, accuracy |-> 0,
                                         execution_location |-> "rpi",
                                         error |-> "All RPis unavailable"]]
       ELSE posted

LbRpiCall ==
    \E call \in lbCalls :
        /\ call.target = "rpi"
        /\ call.state = "running"
        /\ \E kind \in RpiAttemptKinds, accuracy \in AccuracyDraw(78, 88) :
              lbCalls' = (lbCalls \ {call}) \cup {RpiAttempt(call, kind, accuracy)}
        /\ UNCHANGED <<lbPc, lbDuration, lbNow, lbPhase, lbPhaseStart, lbPhaseDuration,
                       lbTask, lbCpu, lbTarget, lbPhaseResults, lbResults>>
        /\ UNCHANGED notLb

\* lines 147-155: future.result(timeout=30) returned task_result
LbTaskReturned(results, task_result, target) ==
    [results EXCEPT
       !.response_times = Append(@, task_result.response_time),
       !.accuracy_scores = Append(@, task_result.accuracy),
       !.supervisor_tasks = IF target = "supervisor" THEN @ + 1 ELSE @,
       !.rpi_tasks = IF target = "supervisor" THEN @ ELSE @ + 1]

LbResult ==
    /\ lbPc = "wait"
    /\ \E call \in lbCalls :
          /\ call.awaited
          /\ call.state \in {"done", "failed"}
          /\ call.elapsed <= LbResultTimeout
          /\ IF call.state = "done"
               THEN /\ lbPhaseResults' =
                         LbTaskReturned(lbPhaseResults, call.result, lbTarget)
                    /\ lbPc' = "pause"
               ELSE \* future.result raises the exception of the call again; the
                    \* clause of line 157 is the one that let it pass
                    /\ lbPhaseResults' = lbPhaseResults
                    /\ lbPc' = "raised"
          /\ lbNow' = lbNow + call.elapsed
          /\ lbCalls' = lbCalls \ {call}
    /\ lbTask' = NoLbTask
    /\ UNCHANGED <<lbDuration, lbPhase, lbPhaseStart, lbPhaseDuration, lbCpu, lbTarget,
                   lbResults>>
    /\ UNCHANGED notLb

\* lines 157-158: the call did not end within 30 s; future.result raised and the
\* call goes on in its worker
LbResultTimedOut ==
    /\ lbPc = "wait"
    /\ \E call \in lbCalls :
          /\ call.awaited
          /\ call.elapsed > LbResultTimeout
          /\ lbNow' = lbNow + LbResultTimeout
          /\ lbCalls' = (lbCalls \ {call}) \cup {[call EXCEPT !.awaited = FALSE]}
    /\ lbTask' = NoLbTask
    /\ lbPc' = IF Catches("except Exception", "TimeoutError") THEN "pause" ELSE "raised"
    /\ UNCHANGED <<lbDuration, lbPhase, lbPhaseStart, lbPhaseDuration, lbCpu, lbTarget,
                   lbPhaseResults, lbResults>>
    /\ UNCHANGED notLb

\* lines 124 and 161: time.sleep(1.0 / task_rate)
TaskInterval(task_rate) == 1000 \div task_rate

LbPause ==
    /\ lbPc = "pause"
    /\ lbNow' = lbNow + TaskInterval(LoadPhases[lbPhase].rate)
    /\ lbPc' = "loop"
    /\ UNCHANGED <<lbDuration, lbPhase, lbPhaseStart, lbPhaseDuration, lbTask, lbCpu,
                   lbTarget, lbCalls, lbPhaseResults, lbResults>>
    /\ UNCHANGED notLb

RECURSIVE SetMax(_, _)
SetMax(S, floor) ==
    IF S = {} THEN floor
    ELSE LET x == CHOOSE y \in S : TRUE IN SetMax(S \ {x}, Max(x, floor))

\* The phase's results put in front of the list.
LbAddPhaseInFront(results, phase_results, phase) ==
    [results EXCEPT
       !.phases = <<[phase_name |-> phase.name,
                     phase_duration |-> phase.duration,
                     results |-> phase_results]>> \o @,
       !.tasks_on_supervisor = @ + phase_results.supervisor_tasks,
       !.tasks_on_rpis = @ + phase_results.rpi_tasks,
       !.load_shedding_events = @ + phase_results.load_shedding_events]

\* lines 85-92: the phase's results are added to those of the run
LbAddPhase(results, phase_results, phase) ==
    [results EXCEPT
       !.phases = Append(@, [phase_name |-> phase.name,
                             phase_duration |-> phase.duration,
                             results |-> phase_results]),
       !.tasks_on_supervisor = @ + phase_results.supervisor_tasks,
       !.tasks_on_rpis = @ + phase_results.rpi_tasks,
       !.load_shedding_events = @ + phase_results.load_shedding_events]

\* lines 126-163 and 85-92: the loop of the phase ends, the with block waits for
\* the calls still running, _run_load_phase returns and run adds up
LbPhaseEnd ==
    /\ lbPc = "loop"
    /\ ~LoopGoesOn(lbNow - lbPhaseStart, lbPhaseDuration)
    /\ \A call \in lbCalls : call.state \in {"done", "failed"}
    /\ lbNow' = SetMax({call.start + call.elapsed : call \in lbCalls}, lbNow)
    /\ lbCalls' = {}
    /\ lbResults' = LbAddPhase(lbResults, lbPhaseResults, LoadPhases[lbPhase])
    /\ lbPhase' = lbPhase + 1
    /\ lbPc' = "phase_check"
    /\ UNCHANGED <<lbDuration, lbPhaseStart, lbPhaseDuration, lbTask, lbCpu, lbTarget,
                   lbPhaseResults>>
    /\ UNCHANGED notLb

\* lines 357-367: the effectiveness score of a timeline of supervisor_cpu
\* samples, as a ratio
LoadBalancingEffectiveness(cpu_timeline) ==
    IF cpu_timeline = <<>> THEN Ratio(0, 1)
    ELSE LET n == Len(cpu_timeline)
             total == SeqSum(cpu_timeline)
             peak_cpu == SeqMax(cpu_timeline)
             effectiveness == 100 * n - Max(0, 2 * (total - 50 * n))
                                - n * Max(0, (peak_cpu - 80) * 5)
         IN Ratio(Max(0, Min(100 * n, effectiveness)), n)

\* lines 337-367: _calculate_load_balancing_metrics.  cpu_usage_timeline is
\* written by the thread of _monitor_system_load only.
LbMetrics(results) ==
    LET total_tasks == results.tasks_on_supervisor + results.tasks_on_rpis
    IN [load_balancing_effectiveness |->
            LoadBalancingEffectiveness(results.cpu_usage_timeline),
        load_distribution_ratio |->
            IF total_tasks > 0 THEN Ratio(results.tasks_on_rpis, total_tasks)
                               ELSE Ratio(0, 1),
        avg_response_supervisor |->
            IF results.response_times_supervisor # <<>>
              THEN Ratio(SeqSum(results.response_times_supervisor),
                         Len(results.response_times_supervisor))
              ELSE Ratio(0, 1),
        avg_response_rpi |->
            IF results.response_times_rpi # <<>>
              THEN Ratio(SeqSum(results.response_times_rpi),
                         Len(results.response_times_rpi))
              ELSE Ratio(0, 1)]

\* lines 68-70 and 94-100: no phase is left, or the duration is used up
LbReturn ==
    /\ lbPc = "phase_check"
    /\ lbPhase > Len(LoadPhases) \/ lbNow >= lbDuration
    /\ lbResults' = [k \in (DOMAIN lbResults) \cup (DOMAIN LbMetrics(lbResults)) |->
                        IF k \in DOMAIN lbResults THEN lbResults[k]
                                                  ELSE LbMetrics(lbResults)[k]]
    /\ lbPc' = "returned"
    /\ UNCHANGED <<lbDuration, lbNow, lbPhase, lbPhaseStart, lbPhaseDuration, lbTask,
                   lbCpu, lbTarget, lbCalls, lbPhaseResults>>
    /\ UNCHANGED notLb

(***************************************************************************)
(*                FailoverScenario (scenario_2_failover.py)                *)
(* Time and response times are in milliseconds.                            *)
(***************************************************************************)
\* Bound: the duration run is called with.
FoDuration == 50000

\* line 115, 136, 150, 198, 231, 258: the timeouts of the requests
FoTaskTimeout == 10000
FoFailureTimeout == 5000
FoStatusTimeout == 2000
FoElectionTimeout == 25000
FoLeaderTaskTimeout == 15000
FoFindLeaderTimeout == 5000
\* line 146: the cap of the polling; line 163: the default detection time
FoDetectionCap == 60000
FoDetectionDefault == 30000
\* line 160: time.sleep(1)
FoPollPause == 1000
\* line 76: the least remaining time for a phase under the new leader
FoMinRemaining == 30000

\* What an endpoint does with one request: it answers or the connection fails
\* after FoQuick ms, it answers after FoLate ms, or it lets the request time out.
FoQuick == 1000
FoLate == 8000

\* lines 93-97, 209-213
FoEmptyPhase == [tasks_completed |-> 0, response_times |-> <<>>, accuracy_scores |-> <<>>]

\* lines 29-42
FoEmptyResults ==
    [phase_1_duration |-> 0, failure_detection_time |-> 0, leader_election_time |-> 0,
     phase_2_duration |-> 0, tasks_before_failure |-> 0, tasks_after_recovery |-> 0,
     downtime |-> 0, response_times_before |-> <<>>, response_times_after |-> <<>>,
     accuracy_before |-> <<>>, accuracy_after |-> <<>>]

NoRound == [modes |-> EmptyDict, polled |-> <<>>]

NothingSent == [statuses |-> EmptyDict, targets |-> {}]

FoIdle ==
    /\ foPc = "idle"
    /\ foDuration = 0
    /\ foNow = 0
    /\ foPhaseStart = 0
    /\ foPhaseDuration = 0
    /\ foPhase = EmptyDict
    /\ foDetectionStart = 0
    /\ foRound = NoRound
    /\ foElectionStart = 0
    /\ foElection = EmptyDict
    /\ foLeader = "None"
    /\ foLeaderEndpoint = "None"
    /\ foResults = EmptyDict
    /\ foSent = NothingSent

\* lines 25-49 and 93-100: run(duration) up to the loop of _run_normal_phase
FoRun(duration) ==
    /\ foPc = "idle"
    /\ foDuration' = duration
    /\ foNow' = 0
    /\ foResults' = FoEmptyResults
    /\ foPhaseStart' = 0
    /\ foPhaseDuration' = (duration * 3) \div 10
    /\ foPhase' = FoEmptyPhase
    /\ foPc' = "phase1"
    /\ UNCHANGED <<foDetectionStart, foRound, foElectionStart, foElection, foLeader,
                   foLeaderEndpoint>>
    /\ UNCHANGED notFo

FoTaskKinds == {"ok200", "http500", "connerr", "timeout"}

FoLatency(kind, request_timeout) == IF kind = "timeout" THEN request_timeout ELSE FoQuick

\* lines 110-125 and 224-240: one POST of a task and what the phase records of it
FoTaskDone(phase, kind, request_timeout, accuracy) ==
    IF kind = "ok200"
      THEN [phase EXCEPT !.tasks_completed = @ + 1,
                         !.response_times = Append(@, FoLatency(kind, request_timeout)),
                         !.accuracy_scores = Append(@, accuracy)]
      ELSE phase

\* lines 102-128: one turn of the loop of _run_normal_phase; the clause of
\* line 124 is a bare except
FoNormalTask ==
    /\ foPc = "phase1"
    /\ LoopGoesOn(foNow - foPhaseStart, foPhaseDuration)
    /\ \E kind \in FoTaskKinds, accuracy \in AccuracyDraw(80, 95), pause \in Uniform(3000, 7000) :
          /\ foPhase' = FoTaskDone(foPhase, kind, FoTaskTimeout, accuracy)
          /\ foNow' = foNow + FoLatency(kind, FoTaskTimeout) + pause
          /\ foPc' = IF Absorbed("except", RequestRaises(kind)) THEN foPc ELSE "raised"
    /\ UNCHANGED <<foDuration, foPhaseStart, foPhaseDuration, foDetectionStart,
                   foRound, foElectionStart, foElection, foLeader, foLeaderEndpoint,
                   foResults>>
    /\ UNCHANGED notFo

\* A run that goes from phase 1 to the detection without the failure injection.
FoNormalPhaseEndSkippingFailure ==
    /\ foPc = "phase1"
    /\ ~LoopGoesOn(foNow - foPhaseStart, foPhaseDuration)
    /\ foResults' = [foResults EXCEPT
                       !.phase_1_duration = foPhaseDuration,
                       !.tasks_before_failure = foPhase.tasks_completed,
                       !.response_times_before = foPhase.response_times,
                       !.accuracy_before = foPhase.accuracy_scores]
    /\ foDetectionStart' = foNow
    /\ foPc' = "detect"
    /\ UNCHANGED <<foDuration, foNow, foPhaseStart, foPhaseDuration, foPhase,
                   foRound, foElectionStart, foElection, foLeader, foLeaderEndpoint>>
    /\ UNCHANGED notFo

\* lines 102, 130 and 50-53: the loop ends and run takes over the results
FoNormalPhaseEnd ==
    /\ foPc = "phase1"
    /\ ~LoopGoesOn(foNow - foPhaseStart, foPhaseDuration)
    /\ foResults' = [foResults EXCEPT
                       !.phase_1_duration = foPhaseDuration,
                       !.tasks_before_failure = foPhase.tasks_completed,
                       !.response_times_before = foPhase.response_times,
                       !.accuracy_before = foPhase.accuracy_scores]
    /\ foPc' = "failure"
    /\ UNCHANGED <<foDuration, foNow, foPhaseStart, foPhaseDuration, foPhase,
                   foDetectionStart, foRound, foElectionStart, foElection, foLeader,
                   foLeaderEndpoint>>
    /\ UNCHANGED notFo

\* lines 132-139 and 143: _simulate_supervisor_failure, then detection starts
FoSimulateFailure ==
    /\ foPc = "failure"
    /\ \E kind \in {"ok200", "timeout"} :
          /\ foNow' = foNow + FoLatency(kind, FoFailureTimeout)
          /\ foDetectionStart' = foNow + FoLatency(kind, FoFailureTimeout)
    /\ foPc' = "detect"
    /\ UNCHANGED <<foDuration, foPhaseStart, foPhaseDuration, foPhase, foRound,
                   foElectionStart, foElection, foLeader, foLeaderEndpoint, foResults>>
    /\ UNCHANGED notFo

\* What a peer does with GET /api/supervisor_status:
\*   offline  answers 200 with supervisor_online false
\*   online   answers 200 with supervisor_online true, or without the field
\*   http500  answers 500
\*   connerr  the connection fails
\*   timeout  no answer within 2 s
PollKinds == {"offline", "online", "http500", "connerr", "timeout"}

\* A loop that takes one more turn when exactly the cap has elapsed.
DetectionGoesOnAtCap(elapsed) == elapsed <= FoDetectionCap

\* line 146: while time.time() - detection_start < 60
DetectionGoesOn(elapsed) == elapsed < FoDetectionCap

\* lines 147-158: one turn of the while loop of _measure_failure_detection: the
\* for loop over the peers inside its try.  The round ends at the first peer
\* that reports the supervisor offline and at the first request that raises.
RECURSIVE PollRound(_, _, _, _)
PollRound(modes, i, elapsed, polled) ==
    IF i > Len(RpiOrder)
      THEN [detected |-> FALSE, elapsed |-> elapsed, polled |-> polled]
      ELSE LET location == RpiOrder[i]
               kind == modes[location]
               after == elapsed + FoLatency(kind, FoStatusTimeout)
               asked == Append(polled, location)
           IN IF kind = "offline"
                THEN [detected |-> TRUE, elapsed |-> after, polled |-> asked]
              ELSE IF kind \in {"connerr", "timeout"}
                THEN [detected |-> FALSE, elapsed |-> after, polled |-> asked]
              ELSE PollRound(modes, i + 1, after, asked)

FoPollRound ==
    /\ foPc = "detect"
    /\ DetectionGoesOn(foNow - foDetectionStart)
    /\ \E modes \in [RpiSet -> PollKinds] :
          LET round == PollRound(modes, 1, 0, <<>>)
          IN /\ foRound' = [modes |-> modes, polled |-> round.polled]
             /\ foNow' = foNow + round.elapsed
             /\ IF round.detected
                  THEN /\ foResults' = [foResults EXCEPT
                                          !.failure_detection_time =
                                              (foNow + round.elapsed) - foDetectionStart]
                       /\ foPc' = "election"
                  ELSE /\ foResults' = foResults
                       /\ foPc' = "detect_sleep"
    /\ UNCHANGED <<foDuration, foPhaseStart, foPhaseDuration, foPhase, foDetectionStart,
                   foElectionStart, foElection, foLeader, foLeaderEndpoint>>
    /\ UNCHANGED notFo

\* line 160
FoPollSleep ==
    /\ foPc = "detect_sleep"
    /\ foNow' = foNow + FoPollPause
    /\ foRound' = NoRound
    /\ foPc' = "detect"
    /\ UNCHANGED <<foDuration, foPhaseStart, foPhaseDuration, foPhase, foDetectionStart,
                   foElectionStart, foElection, foLeader, foLeaderEndpoint, foResults>>
    /\ UNCHANGED notFo

\* lines 146 and 162-163: the cap is reached, the default is returned
FoDetectDefault ==
    /\ foPc = "detect"
    /\ ~DetectionGoesOn(foNow - foDetectionStart)
    /\ foResults' = [foResults EXCEPT !.failure_detection_time = FoDetectionDefault]
    /\ foPc' = "election"
    /\ UNCHANGED <<foDuration, foNow, foPhaseStart, foPhaseDuration, foPhase,
                   foDetectionStart, foRound, foElectionStart, foElection, foLeader,
                   foLeaderEndpoint>>
    /\ UNCHANGED notFo

NoElectionResult == [is_leader |-> FALSE, location |-> "None"]

\* lines 167-174: the election starts, one call per peer is submitted to a pool
\* of three workers
FoElectionBegin ==
    /\ foPc = "election"
    /\ foElectionStart' = foNow
    /\ foElection' = [l \in RpiSet |-> [state |-> "running", elapsed |-> 0,
                                        result |-> NoElectionResult]]
    /\ foLeader' = "None"
    /\ foRound' = NoRound
    /\ foPc' = "election_pool"
    /\ UNCHANGED <<foDuration, foNow, foPhaseStart, foPhaseDuration, foPhase,
                   foDetectionStart, foLeaderEndpoint, foResults>>
    /\ UNCHANGED notFo

\* What a peer does with POST /api/leader_election: it answers 200 as leader or
\* as follower, quickly or late, or answers 500, or the connection fails, or the
\* request times out after 25 s.
ElectionAnswers ==
    { [kind |-> k, latency |-> t] : k \in {"leader", "follower"}, t \in {FoQuick, FoLate} }
      \cup { [kind |-> k, latency |-> FoQuick] : k \in {"http500", "connerr"} }
      \cup { [kind |-> "timeout", latency |-> FoElectionTimeout] }

\* lines 192-205: _participate_in_election
ParticipateInElection(location, answer) ==
    IF answer.kind = "leader" THEN [is_leader |-> TRUE, location |-> location]
    ELSE [is_leader |-> FALSE, location |-> location]

FoParticipate(location) ==
    /\ foPc = "election_pool"
    /\ foElection[location].state = "running"
    /\ \E answer \in ElectionAnswers :
          foElection' = [foElection EXCEPT
                           ![location] = [state |-> "done", elapsed |-> answer.latency,
                                          result |-> ParticipateInElection(location, answer)]]
    /\ UNCHANGED <<foPc, foDuration, foNow, foPhaseStart, foPhaseDuration, foPhase,
                   foDetectionStart, foRound, foElectionStart, foLeader, foLeaderEndpoint,
                   foResults>>
    /\ UNCHANGED notFo

\* lines 178-186: the loop over election_futures, up to the first is_leader
RECURSIVE FirstLeader(_, _)
FirstLeader(election, i) ==
    IF i > Len(RpiOrder) THEN "None"
    ELSE IF election[RpiOrder[i]].result.is_leader
      THEN election[RpiOrder[i]].result.location
    ELSE FirstLeader(election, i + 1)

\* line 171: the with block of the pool ends when every submitted call has ended
PoolJoined(election) ==
    SetMax({election[l].elapsed : l \in DOMAIN election}, 0)

\* lines 171-190 and 67-69: the pool is left, the results are read, the election
\* time is taken
FoElectionEnd ==
    /\ foPc = "election_pool"
    /\ \A l \in RpiSet : foElection[l].state = "done"
    /\ foNow' = foElectionStart + PoolJoined(foElection)
    /\ foLeader' = FirstLeader(foElection, 1)
    /\ foResults' = [foResults EXCEPT
                       !.leader_election_time = PoolJoined(foElection),
                       !.downtime = foResults.failure_detection_time
                                      + PoolJoined(foElection)]
    /\ foPc' = "phase3_check"
    /\ UNCHANGED <<foDuration, foPhaseStart, foPhaseDuration, foPhase, foDetectionStart,
                   foRound, foElectionStart, foElection, foLeaderEndpoint>>
    /\ UNCHANGED notFo

\* What a peer does with GET /api/status: it answers 200 as leader or as
\* follower, or the connection fails, or the request times out after 5 s.
StatusKinds == {"leader", "follower", "unreachable", "timeout"}

\* The last peer, in the order of the dict, that reports itself leader.
RECURSIVE FindLastLeader(_, _)
FindLastLeader(statuses, i) ==
    IF i > Len(RpiOrder) THEN "None"
    ELSE IF FindLastLeader(statuses, i + 1) # "None" THEN FindLastLeader(statuses, i + 1)
    ELSE IF statuses[RpiOrder[i]] = "leader" THEN RpiOrder[i]
    ELSE "None"

\* lines 254-266: _find_current_leader
RECURSIVE FindCurrentLeader(_, _)
FindCurrentLeader(statuses, i) ==
    IF i > Len(RpiOrder) THEN "None"
    ELSE IF statuses[RpiOrder[i]] = "leader" THEN RpiOrder[i]
    ELSE FindCurrentLeader(statuses, i + 1)

\* The time _find_current_leader takes
RECURSIVE FindLeaderElapsed(_, _)
FindLeaderElapsed(statuses, i) ==
    IF i > Len(RpiOrder) THEN 0
    ELSE IF statuses[RpiOrder[i]] = "leader" THEN FoQuick
    ELSE FoLatency(statuses[RpiOrder[i]], FoFindLeaderTimeout)
           + FindLeaderElapsed(statuses, i + 1)

\* A run of the last phase whenever any time remains.
LeaderPhaseRunsWheneverTimeRemains(remaining_time) == remaining_time > 0

\* line 76: if remaining_time > 30
LeaderPhaseRuns(remaining_time) == remaining_time > FoMinRemaining

\* lines 72-77 and 209-219: enough time remains, the leader is looked for and
\* the loop of _run_rpi_leader_phase starts
FoLeaderPhaseBegin ==
    /\ foPc = "phase3_check"
    /\ LeaderPhaseRuns(foDuration - foNow)
    /\ \E statuses \in [RpiSet -> StatusKinds] :
          /\ foLeaderEndpoint' = FindCurrentLeader(statuses, 1)
          /\ foSent' = [statuses |-> statuses, targets |-> {}]
          /\ foNow' = foNow + FindLeaderElapsed(statuses, 1)
          /\ foPhaseStart' = foNow + FindLeaderElapsed(statuses, 1)
    /\ foPhaseDuration' = foDuration - foNow
    /\ foPhase' = FoEmptyPhase
    /\ foPc' = "phase3"
    /\ UNCHANGED <<foDuration, foDetectionStart, foRound, foElectionStart, foElection,
                   foLeader, foResults>>
    /\ UNCHANGED notFoRun

\* lines 76 and 83-84: too little time remains
FoLeaderPhaseSkipped ==
    /\ foPc = "phase3_check"
    /\ ~LeaderPhaseRuns(foDuration - foNow)
    /\ foPc' = "finish"
    /\ UNCHANGED <<foDuration, foNow, foPhaseStart, foPhaseDuration, foPhase,
                   foDetectionStart, foRound, foElectionStart, foElection, foLeader,
                   foLeaderEndpoint, foResults>>
    /\ UNCHANGED notFo

\* lines 221-250: one turn of the loop of _run_rpi_leader_phase
FoLeaderTask ==
    /\ foPc = "phase3"
    /\ foLeaderEndpoint # "None"
    /\ LoopGoesOn(foNow - foPhaseStart, foPhaseDuration)
    /\ \E kind \in FoTaskKinds, accuracy \in AccuracyDraw(75, 90), pause \in Uniform(4000, 10000) :
          /\ foPhase' = FoTaskDone(foPhase, kind, FoLeaderTaskTimeout, accuracy)
          /\ foNow' = foNow + FoLatency(kind, FoLeaderTaskTimeout) + pause
          /\ foPc' = IF Absorbed("except", RequestRaises(kind)) THEN foPc ELSE "raised"
    /\ foSent' = [foSent EXCEPT !.targets = @ \cup {foLeaderEndpoint}]
    /\ UNCHANGED <<foDuration, foPhaseStart, foPhaseDuration, foDetectionStart,
                   foRound, foElectionStart, foElection, foLeader, foLeaderEndpoint,
                   foResults>>
    /\ UNCHANGED notFoRun

\* lines 216-217, 252 and 77-81: no leader was found or the loop ends; run takes
\* over the results
FoLeaderPhaseEnd ==
    /\ foPc = "phase3"
    /\ foLeaderEndpoint = "None" \/ ~LoopGoesOn(foNow - foPhaseStart, foPhaseDuration)
    /\ foResults' = [foResults EXCEPT
                       !.phase_2_duration = foPhaseDuration,
                       !.tasks_after_recovery = foPhase.tasks_completed,
                       !.response_times_after = foPhase.response_times,
                       !.accuracy_after = foPhase.accuracy_scores]
    /\ foPc' = "finish"
    /\ UNCHANGED <<foDuration, foNow, foPhaseStart, foPhaseDuration, foPhase,
                   foDetectionStart, foRound, foElectionStart, foElection, foLeader,
                   foLeaderEndpoint>>
    /\ UNCHANGED notFo

\* lines 268-277: _calculate_performance_degradation, as a ratio
PerformanceDegradation(results) ==
    LET before == results.response_times_before
        after == results.response_times_after
    IN IF before = <<>> \/ after = <<>> THEN Ratio(0, 1)
       ELSE Ratio(Max(0, 100 * (SeqSum(after) * Len(before) - SeqSum(before) * Len(after))),
                  Len(after) * SeqSum(before))

\* line 85
RecoverySuccessRate(results) ==
    Ratio(Len(results.response_times_after), Max(1, Len(results.response_times_before)))

\* lines 83-89.  The division of line 276 by an avg_before of 0 raises
\* ZeroDivisionError, which nothing in run catches.
FoReturn ==
    /\ foPc = "finish"
    /\ IF PerformanceDegradation(foResults)[2] = 0
         THEN /\ foResults' = foResults
              /\ foPc' = "raised"
         ELSE /\ foResults' =
                    [k \in (DOMAIN foResults)
                             \cup {"performance_degradation", "recovery_success_rate"} |->
                        IF k = "performance_degradation" THEN PerformanceDegradation(foResults)
                        ELSE IF k = "recovery_success_rate" THEN RecoverySuccessRate(foResults)
                        ELSE foResults[k]]
              /\ foPc' = "returned"
    /\ UNCHANGED <<foDuration, foNow, foPhaseStart, foPhaseDuration, foPhase,
                   foDetectionStart, foRound, foElectionStart, foElection, foLeader,
                   foLeaderEndpoint>>
    /\ UNCHANGED notFo

(***************************************************************************)
(*               ScenarioOrchestrator (run_scenarios.py)                   *)
(* scenario.run is one step that returns a results dict, of which the      *)
(* 'scenario' entry is kept.                                               *)
(***************************************************************************)
\* Bound: the largest iterations argument.
MaxIterations == 2

\* lines 43, 82 and 118: the default duration
DefaultDuration == 300

\* lines 37-41: self.scenarios, in the order of the dict
ScenarioOrder == <<"S1", "S2", "S3">>

\* A registry with a fourth scenario.
ScenarioIdsAndMore == {"S1", "S2", "S3", "S4"}

\* lines 37-41: the keys of self.scenarios
ScenarioIds == {ScenarioOrder[k] : k \in DOMAIN ScenarioOrder}

\* The scenario ids run_single_scenario is called with.
RequestedIds == {"S1", "S2", "S3", "S4", "all", ""}

\* results['scenario'] of the run methods (scenario_1_normal.py line 34,
\* scenario_2_failover.py line 30, scenario_3_loadbalance.py line 33)
ScenarioName(scenario_id) ==
    IF scenario_id = "S1" THEN "S1_Normal_Operation"
    ELSE IF scenario_id = "S2" THEN "S2_Failover"
    ELSE IF scenario_id = "S3" THEN "S3_Load_Balancing"
    ELSE scenario_id

NoCall == [method |-> "", scenario_id |-> "", iterations |-> 0, duration |-> 0]

OrchIdle ==
    /\ orchPc = "idle"
    /\ orchCall = NoCall
    /\ orchScenario = 0
    /\ orchI = 0
    /\ orchScenarioResults = <<>>
    /\ orchResults = EmptyDict
    /\ orchFiles = EmptyDict
    /\ orchEvents = <<>>
    /\ orchSlept = 0

\* line 69: time.sleep(30)
CooldownSeconds == 30

\* lines 100-105: _save_results
SaveResults(files, results, filename) == DictPut(files, filename, results)

\* The tag of the first iteration is 0.
IterationTagFromZero(i) == i

\* lines 62 and 93: result['iteration'] = i + 1
IterationTag(i) == i + 1

\* lines 43-50: run_all_scenarios up to the loop over self.scenarios
RunAllScenarios(iterations, duration) ==
    /\ orchPc = "idle"
    /\ orchCall' = [method |-> "run_all_scenarios", scenario_id |-> "all",
                    iterations |-> iterations, duration |-> duration]
    /\ orchResults' = EmptyDict
    /\ orchScenario' = 1
    /\ orchPc' = "scenario"
    /\ UNCHANGED <<orchI, orchScenarioResults, orchFiles, orchEvents>>
    /\ UNCHANGED orchSlept
    /\ UNCHANGED notOrch

\* lines 50-52: the next scenario of self.scenarios
OrchScenarioBegin ==
    /\ orchPc = "scenario"
    /\ orchScenario <= Len(ScenarioOrder)
    /\ orchScenarioResults' = <<>>
    /\ orchI' = 0
    /\ orchPc' = "iteration"
    /\ UNCHANGED <<orchCall, orchScenario, orchResults, orchFiles, orchEvents>>
    /\ UNCHANGED orchSlept
    /\ UNCHANGED notOrch

\* lines 54-59: the next iteration; scenario.run is called
OrchRunBegin ==
    /\ orchPc = "iteration"
    /\ orchI < orchCall.iterations
    /\ orchEvents' = Append(orchEvents,
                            [event |-> "run called", scenario_id |-> ScenarioOrder[orchScenario],
                             iteration |-> IterationTag(orchI)])
    /\ orchPc' = "running"
    /\ UNCHANGED <<orchCall, orchScenario, orchI, orchScenarioResults, orchResults,
                   orchFiles>>
    /\ UNCHANGED orchSlept
    /\ UNCHANGED notOrch

\* lines 59-66: scenario.run returns; the result is tagged and appended
OrchRunReturned ==
    /\ orchPc = "running"
    /\ \E overrun \in {0, 1} :
          orchScenarioResults' =
              Append(orchScenarioResults,
                     [scenario |-> ScenarioName(ScenarioOrder[orchScenario]),
                      iteration |-> IterationTag(orchI),
                      total_duration |-> orchCall.duration + overrun])
    /\ orchEvents' = Append(orchEvents,
                            [event |-> "run returned",
                             scenario_id |-> ScenarioOrder[orchScenario],
                             iteration |-> IterationTag(orchI)])
    /\ orchPc' = "cooldown"
    /\ UNCHANGED <<orchCall, orchScenario, orchI, orchResults, orchFiles>>
    /\ UNCHANGED orchSlept
    /\ UNCHANGED notOrch

\* An exception of scenario.run that is logged, the loop going on.
RunExceptionSwallowed == "cooldown"

\* lines 54-69: the call of scenario.run stands in no try, so an exception of
\* it leaves run_all_scenarios
RunExceptionLeadsTo == "raised"

\* line 59: scenario.run raises
OrchRunRaised ==
    /\ orchPc = "running"
    /\ orchEvents' = Append(orchEvents,
                            [event |-> "run raised",
                             scenario_id |-> ScenarioOrder[orchScenario],
                             iteration |-> IterationTag(orchI)])
    /\ orchPc' = RunExceptionLeadsTo
    /\ UNCHANGED <<orchCall, orchScenario, orchI, orchScenarioResults, orchResults,
                   orchFiles>>
    /\ UNCHANGED orchSlept
    /\ UNCHANGED notOrch

\* line 69: time.sleep(30)
OrchCooldown ==
    /\ orchPc = "cooldown"
    /\ orchI' = orchI + 1
    /\ orchSlept' = orchSlept + CooldownSeconds
    /\ orchPc' = "iteration"
    /\ UNCHANGED <<orchCall, orchScenario, orchScenarioResults, orchResults, orchFiles,
                   orchEvents>>
    /\ UNCHANGED notOrch

\* lines 54 and 71-74: the iterations of the scenario are over; its results are
\* stored and the intermediate file is written
OrchScenarioEnd ==
    /\ orchPc = "iteration"
    /\ orchI >= orchCall.iterations
    /\ orchResults' = DictPut(orchResults, ScenarioOrder[orchScenario], orchScenarioResults)
    /\ orchFiles' = SaveResults(orchFiles, orchResults',
                                "intermediate_" \o ScenarioOrder[orchScenario] \o ".json")
    /\ orchEvents' = Append(orchEvents,
                            [event |-> "saved",
                             scenario_id |-> ScenarioOrder[orchScenario],
                             iteration |-> 0])
    /\ orchScenario' = orchScenario + 1
    /\ orchPc' = "scenario"
    /\ UNCHANGED <<orchCall, orchI, orchScenarioResults>>
    /\ UNCHANGED orchSlept
    /\ UNCHANGED notOrch

\* lines 50 and 76-77: no scenario is left; final_results.json is written
OrchFinalSave ==
    /\ orchPc = "scenario"
    /\ orchScenario > Len(ScenarioOrder)
    /\ orchFiles' = SaveResults(orchFiles, orchResults, "final_results.json")
    /\ orchEvents' = Append(orchEvents,
                            [event |-> "saved", scenario_id |-> "final", iteration |-> 0])
    /\ orchPc' = "analysis"
    /\ UNCHANGED <<orchCall, orchScenario, orchI, orchScenarioResults, orchResults>>
    /\ UNCHANGED orchSlept
    /\ UNCHANGED notOrch

\* lines 78-80 and 107-110: _generate_analysis, then the return
OrchAnalysis ==
    /\ orchPc = "analysis"
    /\ orchEvents' = Append(orchEvents,
                            [event |-> "analyzed", scenario_id |-> "all", iteration |-> 0])
    /\ orchPc' = "returned"
    /\ UNCHANGED <<orchCall, orchScenario, orchI, orchScenarioResults, orchResults,
                   orchFiles>>
    /\ UNCHANGED orchSlept
    /\ UNCHANGED notOrch

\* lines 82-88: run_single_scenario up to its loop; ValueError for an id that
\* is no key of self.scenarios
RunSingleScenario(scenario_id, iterations, duration) ==
    /\ orchPc = "idle"
    /\ orchCall' = [method |-> "run_single_scenario", scenario_id |-> scenario_id,
                    iterations |-> iterations, duration |-> duration]
    /\ IF scenario_id \notin ScenarioIds
         THEN /\ orchPc' = "raised"
              /\ UNCHANGED <<orchI, orchScenarioResults>>
         ELSE /\ orchScenarioResults' = <<>>
              /\ orchI' = 0
              /\ orchPc' = "single iteration"
    /\ UNCHANGED <<orchScenario, orchResults, orchFiles, orchEvents>>
    /\ UNCHANGED orchSlept
    /\ UNCHANGED notOrch

\* lines 90-92: the next iteration; scenario.run is called
OrchSingleRunBegin ==
    /\ orchPc = "single iteration"
    /\ orchI < orchCall.iterations
    /\ orchEvents' = Append(orchEvents,
                            [event |-> "run called", scenario_id |-> orchCall.scenario_id,
                             iteration |-> IterationTag(orchI)])
    /\ orchPc' = "single running"
    /\ UNCHANGED <<orchCall, orchScenario, orchI, orchScenarioResults, orchResults,
                   orchFiles>>
    /\ UNCHANGED orchSlept
    /\ UNCHANGED notOrch

\* lines 92-95: scenario.run returns; the result is tagged and appended
OrchSingleRunReturned ==
    /\ orchPc = "single running"
    /\ orchScenarioResults' =
          Append(orchScenarioResults,
                 [scenario |-> ScenarioName(orchCall.scenario_id),
                  iteration |-> IterationTag(orchI)])
    /\ orchEvents' = Append(orchEvents,
                            [event |-> "run returned", scenario_id |-> orchCall.scenario_id,
                             iteration |-> IterationTag(orchI)])
    /\ orchI' = orchI + 1
    /\ orchPc' = "single iteration"
    /\ UNCHANGED <<orchCall, orchScenario, orchResults, orchFiles>>
    /\ UNCHANGED orchSlept
    /\ UNCHANGED notOrch

\* line 92: scenario.run raises; run_single_scenario has no try either
OrchSingleRunRaised ==
    /\ orchPc = "single running"
    /\ orchEvents' = Append(orchEvents,
                            [event |-> "run raised", scenario_id |-> orchCall.scenario_id,
                             iteration |-> IterationTag(orchI)])
    /\ orchPc' = "raised"
    /\ UNCHANGED <<orchCall, orchScenario, orchI, orchScenarioResults, orchResults,
                   orchFiles>>
    /\ UNCHANGED orchSlept
    /\ UNCHANGED notOrch

\* lines 90 and 97-98: the iterations are over; the file is written
OrchSingleSave ==
    /\ orchPc = "single iteration"
    /\ orchI >= orchCall.iterations
    /\ orchFiles' = SaveResults(orchFiles,
                                DictPut(EmptyDict, orchCall.scenario_id, orchScenarioResults),
                                orchCall.scenario_id \o "_results.json")
    /\ orchEvents' = Append(orchEvents,
                            [event |-> "saved", scenario_id |-> orchCall.scenario_id,
                             iteration |-> 0])
    /\ orchPc' = "returned"
    /\ UNCHANGED <<orchCall, orchScenario, orchI, orchScenarioResults, orchResults>>
    /\ UNCHANGED orchSlept
    /\ UNCHANGED notOrch

(***************************************************************************)
(*   TaskQueue (services/background_worker.py) and its thread (app.py)     *)
(***************************************************************************)
\* Bound: how many tasks are added.
MaxTasks == 3

\* What the callable of a task is: a function that returns, one that raises an
\* exception derived from Exception, one that raises SystemExit (sys.exit()),
\* and a callable without __name__ (a functools.partial) that would return.
FuncKinds == {"returns", "raises", "exits", "unnamed"}

\* What calling the function raises.
FuncRaises(func) ==
    IF func = "raises" THEN "Exception"
    ELSE IF func = "exits" THEN "SystemExit"
    ELSE "none"

\* line 20 (and line 13): func.__name__
NameRaises(func) == IF func = "unnamed" THEN "AttributeError" ELSE "none"

NoQueuedTask == [id |-> 0, func |-> ""]

\* A loop whose only clause is the one of line 23.
TaskErrorClauseEmptyOnly == "except queue.Empty"

\* line 25: except Exception as e
TaskErrorClause == "except Exception"

\* lines 6-9, before app.py line 25 has started the thread
TqIdle ==
    /\ tqTasks = <<>>
    /\ tqRunning = TRUE
    /\ tqPc = "not started"
    /\ tqCurrent = NoQueuedTask
    /\ tqAdded = 0
    /\ tqLog = <<>>

\* app.py lines 25-26, background_worker.py line 16
TqThreadStart ==
    /\ tqPc = "not started"
    /\ tqPc' = "test"
    /\ UNCHANGED <<tqTasks, tqRunning, tqCurrent, tqAdded, tqLog>>
    /\ UNCHANGED notTq

\* lines 11-13: add_task, from any thread.  The put of line 12 is the first
\* statement, so the task is queued even when line 13 raises on func.__name__.
AddTask(func) ==
    /\ tqAdded < MaxTasks
    /\ tqTasks' = Append(tqTasks, [id |-> tqAdded + 1, func |-> func])
    /\ tqAdded' = tqAdded + 1
    /\ UNCHANGED <<tqRunning, tqPc, tqCurrent, tqLog>>
    /\ UNCHANGED notTq

\* A queue that gives the task put last.
QueueGetLast(tasks) == tasks[Len(tasks)]

\* line 19: queue.Queue.get gives the task put first
QueueGet(tasks) == Head(tasks)

QueueRest(tasks) == SeqWithout(tasks, QueueGet(tasks))

\* line 17: while self.running.is_set(), and line 27
TqLoopTest ==
    /\ tqPc = "test"
    /\ tqPc' = IF tqRunning THEN "get" ELSE "stopped"
    /\ UNCHANGED <<tqTasks, tqRunning, tqCurrent, tqAdded, tqLog>>
    /\ UNCHANGED notTq

\* lines 19-20 and 23-26: get with its timeout of 1 s, the unpacking and the
\* log line that reads func.__name__
TqGet ==
    /\ tqPc = "get"
    /\ IF tqTasks = <<>>
         THEN \* queue.Empty after 1 s, line 23: continue
              /\ tqPc' = IF Catches("except queue.Empty", "Empty") THEN "test" ELSE "died"
              /\ UNCHANGED <<tqTasks, tqCurrent, tqLog>>
         ELSE LET task == QueueGet(tqTasks)
              IN /\ tqTasks' = QueueRest(tqTasks)
                 /\ IF NameRaises(task.func) = "none"
                      THEN /\ tqCurrent' = task
                           /\ tqLog' = Append(tqLog, [event |-> "executing", id |-> task.id])
                           /\ tqPc' = "executing"
                      ELSE \* line 25: the AttributeError is logged, func is not called
                           /\ tqCurrent' = NoQueuedTask
                           /\ tqLog' = Append(tqLog, [event |-> "error", id |-> task.id])
                           /\ tqPc' = IF Catches(TaskErrorClause, NameRaises(task.func))
                                         THEN "test" ELSE "died"
    /\ UNCHANGED <<tqRunning, tqAdded>>
    /\ UNCHANGED notTq

\* lines 21-22 and 25-26: func(*args, **kwargs) returns or raises
TqTaskEnds ==
    /\ tqPc = "executing"
    /\ LET exception == FuncRaises(tqCurrent.func)
       IN IF exception = "none"
            THEN /\ tqLog' = Append(tqLog, [event |-> "returned", id |-> tqCurrent.id])
                 /\ tqPc' = "test"
            ELSE IF Catches(TaskErrorClause, exception)
                   THEN /\ tqLog' = Append(tqLog, [event |-> "error", id |-> tqCurrent.id])
                        /\ tqPc' = "test"
                   ELSE \* the exception leaves run: the thread ends
                        /\ tqLog' = Append(tqLog, [event |-> "died", id |-> tqCurrent.id])
                        /\ tqPc' = "died"
    /\ tqCurrent' = NoQueuedTask
    /\ UNCHANGED <<tqTasks, tqRunning, tqAdded>>
    /\ UNCHANGED notTq

\* lines 29-31: stop, from any thread
TqStop ==
    /\ tqRunning
    /\ tqRunning' = FALSE
    /\ UNCHANGED <<tqTasks, tqPc, tqCurrent, tqAdded, tqLog>>
    /\ UNCHANGED notTq

(***************************************************************************)
(*            ResultsAnalyzer (scenarios/results_analyzer.py)              *)
(***************************************************************************)
AnIdle ==
    /\ anPc = "idle"
    /\ anResults = EmptyDict
    /\ anSummary = EmptyDict

\* lines 553-559: _extract_response_times reads the key response_times of
\* each run result and no other
RECURSIVE ExtractResponseTimes(_)
ExtractResponseTimes(scenario_data) ==
    IF scenario_data = <<>> THEN <<>>
    ELSE LET run == Head(scenario_data)
         IN (IF "response_times" \in DOMAIN run /\ run.response_times # <<>>
               THEN run.response_times ELSE <<>>)
              \o ExtractResponseTimes(Tail(scenario_data))

\* lines 581-587: _extract_accuracy_scores
RECURSIVE ExtractAccuracyScores(_)
ExtractAccuracyScores(scenario_data) ==
    IF scenario_data = <<>> THEN <<>>
    ELSE LET run == Head(scenario_data)
         IN (IF "accuracy_scores" \in DOMAIN run /\ run.accuracy_scores # <<>>
               THEN run.accuracy_scores ELSE <<>>)
              \o ExtractAccuracyScores(Tail(scenario_data))

\* lines 589-598: _extract_cpu_usage; a sample of cpu_usage_timeline is kept
\* as its supervisor_cpu
RECURSIVE ExtractCpuUsage(_)
ExtractCpuUsage(scenario_data) ==
    IF scenario_data = <<>> THEN <<>>
    ELSE LET run == Head(scenario_data)
         IN (IF "cpu_usage" \in DOMAIN run /\ run.cpu_usage # <<>>
               THEN run.cpu_usage
             ELSE IF "cpu_usage_timeline" \in DOMAIN run
               THEN run.cpu_usage_timeline ELSE <<>>)
              \o ExtractCpuUsage(Tail(scenario_data))

\* lines 398-406: the statistics of a non-empty list; of the seven the mean,
\* the minimum and the maximum are kept, the count stands for the others
Distribution(values) ==
    [mean |-> Ratio(SeqSum(values), Len(values)), min |-> SeqMin(values),
     max |-> SeqMax(values), count |-> Len(values)]

\* lines 389-426: _calculate_scenario_performance, a dict with a key for each
\* list that is not empty
CalculateScenarioPerformance(scenario_data) ==
    LET the_times == ExtractResponseTimes(scenario_data)
        the_scores == ExtractAccuracyScores(scenario_data)
        the_usage == ExtractCpuUsage(scenario_data)
        keys == (IF the_times # <<>> THEN {"response_time"} ELSE {})
                  \cup (IF the_scores # <<>> THEN {"accuracy"} ELSE {})
                  \cup (IF the_usage # <<>> THEN {"cpu_utilization"} ELSE {})
    IN [k \in keys |-> Distribution(IF k = "response_time" THEN the_times
                                    ELSE IF k = "accuracy" THEN the_scores
                                    ELSE the_usage)]

\* lines 428-454: _perform_statistical_tests, the keys of the dict it returns
PerformStatisticalTests(scenario_data) ==
    IF Len(ExtractResponseTimes(scenario_data)) > 30
      THEN {"normality_test", "confidence_interval_95"} ELSE {}

\* lines 473-474: the pairs (i, j), i < j, of the two for loops, in their order
RECURSIVE IndexPairs(_, _, _)
IndexPairs(n, i, j) ==
    IF i > n THEN <<>>
    ELSE IF j > n THEN IndexPairs(n, i + 1, i + 2)
    ELSE <<(<<i, j>>)>> \o IndexPairs(n, i, j + 1)

RECURSIVE SeqMap(_, _)
SeqMap(Op(_), seq) ==
    IF seq = <<>> THEN <<>> ELSE <<Op(Head(seq))>> \o SeqMap(Op, Tail(seq))

\* lines 456-493: _perform_cross_scenario_analysis; results.items() goes
\* through the scenarios in the order run_all_scenarios stored them.  Of an
\* entry the scenarios and the two means are kept.
PerformCrossScenarioAnalysis(results) ==
    LET HasTimes(id) == id \in DOMAIN results /\ ExtractResponseTimes(results[id]) # <<>>
        scenario_ids == SelectSeq(ScenarioOrder, HasTimes)
        Times(k) == ExtractResponseTimes(results[scenario_ids[k]])
        Compared(pair) == Len(Times(pair[1])) > 10 /\ Len(Times(pair[2])) > 10
        Entry(pair) == [scenario_1 |-> scenario_ids[pair[1]],
                        scenario_2 |-> scenario_ids[pair[2]],
                        mean_1 |-> Ratio(SeqSum(Times(pair[1])), Len(Times(pair[1]))),
                        mean_2 |-> Ratio(SeqSum(Times(pair[2])), Len(Times(pair[2])))]
    IN IF Len(scenario_ids) >= 2
         THEN [k \in {"pairwise_comparisons"} |->
                 SeqMap(Entry, SelectSeq(IndexPairs(Len(scenario_ids), 1, 2), Compared))]
         ELSE EmptyDict

\* lines 365-387: _generate_statistical_summary
GenerateStatisticalSummary(results) ==
    [experiment_overview |->
        [total_scenarios |-> Cardinality(DOMAIN results),
         scenarios_analyzed |-> SelectSeq(ScenarioOrder, LAMBDA id : id \in DOMAIN results)],
     scenario_summaries |->
        [id \in DOMAIN results |->
            [iterations |-> Len(results[id]),
             performance_metrics |-> CalculateScenarioPerformance(results[id]),
             statistical_tests |-> PerformStatisticalTests(results[id])]],
     cross_scenario_analysis |-> PerformCrossScenarioAnalysis(results)]

\* lines 23-40: analyze_all_scenarios (the plots and the report files are left
\* out) returns the summary
AnalyzeAllScenarios ==
    /\ anPc = "called"
    /\ anSummary' = GenerateStatisticalSummary(anResults)
    /\ anPc' = "returned"
    /\ UNCHANGED anResults
    /\ UNCHANGED notAn

(***************************************************************************)
(*             send_sensor_data (sensor/sensor_reading.py)                 *)
(* Time is in seconds.                                                     *)
(***************************************************************************)
\* line 54: retries=3, delay=2
DefaultRetries == 3
DefaultDelay == 2

\* line 68
FailedAfterRetries == "Failed after retries."

SendIdle ==
    /\ sendPc = "idle"
    /\ sendRetries = 0
    /\ sendDelay = 0
    /\ sendAttempt = 0
    /\ sendLog = <<>>
    /\ sendReturn = ""

\* What one POST to /sensor_data can come to: the answers of the server
\* (app.py lines 57-69), a response whose body cannot be read, no connection,
\* no answer within the 5 s, the task cancelled while it waits.
PostKinds == {"ok200", "http500", "payload_error", "connerr", "timeout", "cancelled"}

\* What session.post or response.text() raises for one outcome
PostRaises(kind) ==
    IF kind = "connerr" THEN "ConnectionError"
    ELSE IF kind = "timeout" THEN "TimeoutError"
    ELSE IF kind = "payload_error" THEN "Exception"
    ELSE IF kind = "cancelled" THEN "CancelledError"
    ELSE "none"

\* app.py lines 66 and 69: the body of the answer, a JSON object
ResponseText(kind) == IF kind = "ok200" THEN "{\"result\": ...}" ELSE "{\"error\": ...}"

\* A loop that sleeps after every failed attempt, the last one included.
SleepsAfterEvery(attempt, retries) == TRUE

\* line 66: if attempt < retries
SleepsAfter(attempt, retries) == attempt < retries

\* lines 54-58: the call, up to the first turn of for attempt in range(1, retries + 1)
SendSensorData(retries, delay) ==
    /\ sendPc = "idle"
    /\ sendRetries' = retries
    /\ sendDelay' = delay
    /\ sendAttempt' = 1
    /\ sendPc' = "loop"
    /\ UNCHANGED <<sendLog, sendReturn>>
    /\ UNCHANGED notSend

\* lines 58-66: one attempt.  A response whose text is read is returned
\* whatever its status; an exception derived from Exception is logged, and any
\* other leaves the call.
SendAttempt ==
    /\ sendPc = "loop"
    /\ sendAttempt <= sendRetries
    /\ \E kind \in PostKinds :
          /\ sendLog' = Append(sendLog, [event |-> "post", attempt |-> sendAttempt,
                                         raised |-> PostRaises(kind), seconds |-> 0])
          /\ IF PostRaises(kind) = "none"
                THEN /\ sendReturn' = ResponseText(kind)
                     /\ sendPc' = "returned"
                     /\ UNCHANGED sendAttempt
              ELSE IF Catches("except Exception", PostRaises(kind))
                THEN /\ sendPc' = IF SleepsAfter(sendAttempt, sendRetries)
                                    THEN "sleep" ELSE "loop"
                     /\ sendAttempt' = IF SleepsAfter(sendAttempt, sendRetries)
                                         THEN sendAttempt ELSE sendAttempt + 1
                     /\ UNCHANGED sendReturn
              ELSE /\ sendPc' = "raised"
                   /\ UNCHANGED <<sendAttempt, sendReturn>>
    /\ UNCHANGED <<sendRetries, sendDelay>>
    /\ UNCHANGED notSend

\* line 67: await asyncio.sleep(delay), which a cancellation ends with
\* CancelledError
SendSleep ==
    /\ sendPc = "sleep"
    /\ \E cancelled \in BOOLEAN :
          IF cancelled
            THEN /\ sendPc' = "raised"
                 /\ UNCHANGED <<sendAttempt, sendLog>>
            ELSE /\ sendLog' = Append(sendLog, [event |-> "sleep", attempt |-> sendAttempt,
                                                raised |-> "none", seconds |-> sendDelay])
                 /\ sendAttempt' = sendAttempt + 1
                 /\ sendPc' = "loop"
    /\ UNCHANGED <<sendRetries, sendDelay, sendReturn>>
    /\ UNCHANGED notSend

\* lines 58 and 68: the range is used up
SendFailed ==
    /\ sendPc = "loop"
    /\ sendAttempt > sendRetries
    /\ sendReturn' = FailedAfterRetries
    /\ sendPc' = "returned"
    /\ UNCHANGED <<sendRetries, sendDelay, sendAttempt, sendLog>>
    /\ UNCHANGED notSend

(***************************************************************************)
(*                           Specifications                                *)
(***************************************************************************)
vars == <<collectorVars, genVars, s1Vars, lbVars, foVars, orchVars, tqVars, anVars, sendVars>>

\* The sampler of one collector, started once with the default interval and
\* left running on a host whose load does not change.
RingInit == CollectorInit /\ GenIdle /\ S1Idle /\ LbIdle /\ FoIdle /\ OrchIdle /\ TqIdle /\ AnIdle /\ SendIdle

RingNext ==
    \/ nStarts < 1 /\ StartCollection(DefaultInterval)
    \/ \E t \in SamplerIds : SamplerCheck(t, MaxRingSamples)
    \/ \E t \in SamplerIds : SamplerRead(t)
    \/ \E t \in SamplerIds : SamplerAppend(t)
    \/ \E t \in SamplerIds : SamplerTrim(t)
    \/ \E t \in SamplerIds : SamplerPublish(t)
    \/ \E t \in SamplerIds : SamplerSleep(t)

SpecRing == RingInit /\ [][RingNext]_vars

\* A collector that is started and stopped, with any interval, on a host whose
\* load changes.
LifeInit == CollectorInit /\ GenIdle /\ S1Idle /\ LbIdle /\ FoIdle /\ OrchIdle /\ TqIdle /\ AnIdle /\ SendIdle

LifeNext ==
    \/ \E interval \in Intervals : nStarts < MaxStarts /\ StartCollection(interval)
    \/ StopCollection
    \/ HostChange
    \/ \E t \in SamplerIds : SamplerCheck(t, MaxSamples)
    \/ \E t \in SamplerIds : SamplerRead(t)
    \/ \E t \in SamplerIds : SamplerAppend(t)
    \/ \E t \in SamplerIds : SamplerTrim(t)
    \/ \E t \in SamplerIds : SamplerPublish(t)
    \/ \E t \in SamplerIds : SamplerSleep(t)

SpecLife == LifeInit /\ [][LifeNext]_vars

\* One caller that starts and stops the collector, each call after the one
\* before has returned.  stop_collection returns when its join does: when the
\* thread has ended, or after the 10 s of the timeout, which a thread outlasts
\* that sleeps for a longer interval.
JoinTimeout == 10

JoinReturns ==
    IF collection_thread = 0 THEN TRUE
    ELSE \/ samplerPc[collection_thread] = "done"
         \/ /\ samplerPc[collection_thread] = "sleep"
            /\ samplerInterval[collection_thread] > JoinTimeout

StopReturned == collection_active \/ JoinReturns

JoinMaxSamples == 3

JoinInit == CollectorInit /\ GenIdle /\ S1Idle /\ LbIdle /\ FoIdle /\ OrchIdle /\ TqIdle /\ AnIdle /\ SendIdle

JoinNext ==
    \/ \E interval \in Intervals :
          nStarts < MaxStarts /\ StopReturned /\ StartCollection(interval)
    \/ StopReturned /\ StopCollection
    \/ \E t \in SamplerIds : SamplerCheck(t, JoinMaxSamples)
    \/ \E t \in SamplerIds : SamplerRead(t)
    \/ \E t \in SamplerIds : SamplerAppend(t)
    \/ \E t \in SamplerIds : SamplerTrim(t)
    \/ \E t \in SamplerIds : SamplerPublish(t)
    \/ \E t \in SamplerIds : SamplerSleep(t)

SpecJoin == JoinInit /\ [][JoinNext]_vars

\* One thread recording task executions and reading the collector.
SeqInit == CollectorInit /\ GenIdle /\ S1Idle /\ LbIdle /\ FoIdle /\ OrchIdle /\ TqIdle /\ AnIdle /\ SendIdle

SeqNext ==
    \/ \E ty \in TaskTypes, rt \in ResponseTimes, ok \in BOOLEAN, l \in Locations :
          nCalls < MaxSeqCalls /\ RecordCall(1, ty, rt, ok, l)
    \/ RecLoadCounter(1)
    \/ RecStoreCounter(1)
    \/ RecAppendTime(1)
    \/ RecLoadError(1)
    \/ RecStoreError(1)
    \/ RecLog(1)
    \/ nReads < MaxSeqReads /\ GetPerformanceSummary
    \/ nReads < MaxSeqReads /\ ExportMetrics

SpecSeq == SeqInit /\ [][SeqNext]_vars

\* One thread recording task executions and reading the collector, on a fresh
\* collector or after the sampler has been started, has sampled and was stopped.
ObsInit == CollectorInit /\ GenIdle /\ S1Idle /\ LbIdle /\ FoIdle /\ OrchIdle /\ TqIdle /\ AnIdle /\ SendIdle

SamplerQuiet ==
    /\ ~collection_active
    /\ \A t \in SamplerIds : samplerPc[t] \in {"unborn", "done"}

ObsNext ==
    \/ nStarts < 1 /\ nCalls = 0 /\ nReads = 0 /\ StartCollection(DefaultInterval)
    \/ collection_active /\ StopCollection
    \/ collection_active /\ HostChange
    \/ \E t \in SamplerIds : SamplerCheck(t, MaxSamples)
    \/ \E t \in SamplerIds : SamplerRead(t)
    \/ \E t \in SamplerIds : SamplerAppend(t)
    \/ \E t \in SamplerIds : SamplerTrim(t)
    \/ \E t \in SamplerIds : SamplerPublish(t)
    \/ \E t \in SamplerIds : SamplerSleep(t)
    \/ \E ty \in TaskTypes, rt \in ResponseTimes, ok \in BOOLEAN, l \in Locations :
          SamplerQuiet /\ nCalls < MaxSeqCalls /\ RecordCall(1, ty, rt, ok, l)
    \/ RecLoadCounter(1)
    \/ RecStoreCounter(1)
    \/ RecAppendTime(1)
    \/ RecLoadError(1)
    \/ RecStoreError(1)
    \/ RecLog(1)
    \/ SamplerQuiet /\ nReads < MaxSeqReads /\ GetPerformanceSummary
    \/ SamplerQuiet /\ nReads < MaxSeqReads /\ ExportMetrics

SpecObs == ObsInit /\ [][ObsNext]_vars

\* Several threads recording task executions while another reads the collector.
ConcInit == CollectorInit /\ GenIdle /\ S1Idle /\ LbIdle /\ FoIdle /\ OrchIdle /\ TqIdle /\ AnIdle /\ SendIdle

ConcNext ==
    \/ \E r \in RecorderIds, ty \in TaskTypes, rt \in ResponseTimes, ok \in BOOLEAN,
          l \in Locations :
          nCalls < MaxConcCalls /\ RecordCall(r, ty, rt, ok, l)
    \/ \E r \in RecorderIds : RecLoadCounter(r)
    \/ \E r \in RecorderIds : RecStoreCounter(r)
    \/ \E r \in RecorderIds : RecAppendTime(r)
    \/ \E r \in RecorderIds : RecLoadError(r)
    \/ \E r \in RecorderIds : RecStoreError(r)
    \/ \E r \in RecorderIds : RecLog(r)
    \/ nReads < MaxConcReads /\ GetPerformanceSummary
    \/ nReads < MaxConcReads /\ ExportMetrics

SpecConc == ConcInit /\ [][ConcNext]_vars

\* One call of generate_sensor_data for every location and hour of the day.
GenSpecInit == CollectorInit /\ GenInit /\ S1Idle /\ LbIdle /\ FoIdle /\ OrchIdle /\ TqIdle /\ AnIdle /\ SendIdle

GenNext == GenBaseValues \/ GenAnomaly \/ GenReturn

SpecGen == GenSpecInit /\ [][GenNext]_vars

\* One Normal-operation run.
NormalInit == CollectorInit /\ GenIdle /\ S1Idle /\ LbIdle /\ FoIdle /\ OrchIdle /\ TqIdle /\ AnIdle /\ SendIdle

NormalNext ==
    \/ S1Run(S1Duration)
    \/ S1SensorSend
    \/ S1SensorSleep
    \/ S1SensorEnd
    \/ SensorQuiet /\ S1Submit
    \/ SensorQuiet /\ S1Result
    \/ SensorQuiet /\ S1ResultTimedOut
    \/ SensorQuiet /\ S1AbandonedEnds
    \/ SensorQuiet /\ S1CollectMetrics(S1CompleteAnswers)
    \/ SensorQuiet /\ S1Sleep
    \/ SensorQuiet /\ S1Return

SpecNormal == NormalInit /\ [][NormalNext]_vars

\* One LoadBalance run.
LbInit == CollectorInit /\ GenIdle /\ S1Idle /\ LbIdle /\ FoIdle /\ OrchIdle /\ TqIdle /\ AnIdle /\ SendIdle

LbNext ==
    \/ LbRun(LbDuration)
    \/ LbPhaseBegin
    \/ LbDispatch
    \/ LbSupervisorCall
    \/ LbRpiCall
    \/ LbResult
    \/ LbResultTimedOut
    \/ LbPause
    \/ LbPhaseEnd
    \/ LbReturn

SpecLb == LbInit /\ [][LbNext]_vars

\* One LoadBalance run with its monitor thread.  A step of the monitor that
\* is due by the time run has reached is taken before run goes on.
MonitorRunDuration == 12000

MonitorInit ==
    CollectorInit /\ GenIdle /\ S1Idle /\ LbIdle /\ FoIdle /\ OrchIdle /\ TqIdle /\ AnIdle /\ SendIdle

MonitorNext ==
    \/ LbRun(MonitorRunDuration)
    \/ MonitorDue /\ LbMonitorBegin
    \/ MonitorDue /\ LbMonitorAppend
    \/ MonitorQuiet /\ LbPhaseBegin
    \/ MonitorQuiet /\ LbDispatch
    \/ MonitorQuiet /\ LbSupervisorCall
    \/ MonitorQuiet /\ LbRpiCall
    \/ MonitorQuiet /\ LbResult
    \/ MonitorQuiet /\ LbResultTimedOut
    \/ MonitorQuiet /\ LbPause
    \/ MonitorQuiet /\ LbPhaseEnd
    \/ MonitorQuiet /\ LbReturn

SpecMonitor == MonitorInit /\ [][MonitorNext]_vars

\* One Failover run.
FoInit == CollectorInit /\ GenIdle /\ S1Idle /\ LbIdle /\ FoIdle /\ OrchIdle /\ TqIdle /\ AnIdle /\ SendIdle

FoNext ==
    \/ FoRun(FoDuration)
    \/ FoNormalTask
    \/ FoNormalPhaseEnd
    \/ FoSimulateFailure
    \/ FoPollRound
    \/ FoPollSleep
    \/ FoDetectDefault
    \/ FoElectionBegin
    \/ \E l \in RpiSet : FoParticipate(l)
    \/ FoElectionEnd
    \/ FoLeaderPhaseBegin
    \/ FoLeaderPhaseSkipped
    \/ FoLeaderTask
    \/ FoLeaderPhaseEnd
    \/ FoReturn

SpecFo == FoInit /\ [][FoNext]_vars

\* The end of a Failover run (lines 83-89) for every pair of lists of up to
\* MaxDegradationTimes response times, in ms, 0 included.
MaxDegradationTimes == 2

DegradationTimes == {0, 1, 3}

TimeLists == UNION {[1..n -> DegradationTimes] : n \in 0..MaxDegradationTimes}

DegradationInit ==
    /\ CollectorInit /\ GenIdle /\ S1Idle /\ LbIdle /\ OrchIdle /\ TqIdle /\ AnIdle /\ SendIdle
    /\ foPc = "finish"
    /\ \E before \in TimeLists, after \in TimeLists :
          foResults = [FoEmptyResults EXCEPT !.response_times_before = before,
                                             !.response_times_after = after,
                                             !.tasks_before_failure = Len(before),
                                             !.tasks_after_recovery = Len(after)]
    /\ foDuration = FoDuration
    /\ foNow = FoDuration
    /\ foPhaseStart = 0
    /\ foPhaseDuration = 0
    /\ foPhase = EmptyDict
    /\ foDetectionStart = 0
    /\ foRound = NoRound
    /\ foElectionStart = 0
    /\ foElection = EmptyDict
    /\ foLeader = "None"
    /\ foLeaderEndpoint = "None"
    /\ foSent = NothingSent

DegradationNext == FoReturn

SpecDegradation == DegradationInit /\ [][DegradationNext]_vars

\* One run of one of the three scenarios.  The Load-balancing run is a short
\* one; the threads of a run are scheduled again and again.
RunsLbDuration == 35000

RunsInit == CollectorInit /\ GenIdle /\ S1Idle /\ LbIdle /\ FoIdle /\ OrchIdle /\ TqIdle /\ AnIdle /\ SendIdle

NoRunYet == s1Pc = "idle" /\ lbPc = "idle" /\ foPc = "idle"

RunsNext ==
    \/ NoRunYet /\ S1Run(S1Duration)
    \/ S1SensorSend
    \/ S1SensorSleep
    \/ S1SensorEnd
    \/ SensorQuiet /\ S1Submit
    \/ SensorQuiet /\ S1Result
    \/ SensorQuiet /\ S1ResultTimedOut
    \/ SensorQuiet /\ S1AbandonedEnds
    \/ SensorQuiet /\ S1CollectMetrics(S1CompleteAnswers)
    \/ SensorQuiet /\ S1Sleep
    \/ SensorQuiet /\ S1Return
    \/ NoRunYet /\ LbRun(RunsLbDuration)
    \/ LbPhaseBegin
    \/ LbDispatch
    \/ LbSupervisorCall
    \/ LbRpiCall
    \/ LbResult
    \/ LbResultTimedOut
    \/ LbPause
    \/ LbPhaseEnd
    \/ LbReturn
    \/ NoRunYet /\ FoRun(FoDuration)
    \/ FoNormalTask
    \/ FoNormalPhaseEnd
    \/ FoSimulateFailure
    \/ FoPollRound
    \/ FoPollSleep
    \/ FoDetectDefault
    \/ FoElectionBegin
    \/ \E l \in RpiSet : FoParticipate(l)
    \/ FoElectionEnd
    \/ FoLeaderPhaseBegin
    \/ FoLeaderPhaseSkipped
    \/ FoLeaderTask
    \/ FoLeaderPhaseEnd
    \/ FoReturn

SpecRuns == RunsInit /\ [][RunsNext]_vars /\ WF_vars(RunsNext)

\* One Normal-operation run of a positive duration against a supervisor that
\* answers every POST /api/task with HTTP 200, at once or late.
Answers200 == {"ok200", "slow"}

PositiveDurations == {1, S1Duration}

Always200Init == CollectorInit /\ GenIdle /\ S1Idle /\ LbIdle /\ FoIdle /\ OrchIdle /\ TqIdle /\ AnIdle /\ SendIdle

Always200Next ==
    \/ \E duration \in PositiveDurations : S1Run(duration)
    \/ S1SensorSend
    \/ S1SensorSleep
    \/ S1SensorEnd
    \/ SensorQuiet /\ S1Submit /\ s1Future'.kind \in Answers200 \cup {""}
    \/ SensorQuiet /\ S1Result
    \/ SensorQuiet /\ S1ResultTimedOut
    \/ SensorQuiet /\ S1AbandonedEnds /\ s1Future'.kind \in Answers200 \cup {""}
    \/ SensorQuiet /\ S1CollectMetrics(S1CompleteAnswers)
    \/ SensorQuiet /\ S1Sleep
    \/ SensorQuiet /\ S1Return

SpecAlways200 == Always200Init /\ [][Always200Next]_vars

\* One run of the Normal scenario against a supervisor whose GET /api/metrics
\* answers anything, its task answers being 200s.
MetricsInit == CollectorInit /\ GenIdle /\ S1Idle /\ LbIdle /\ FoIdle /\ OrchIdle /\ TqIdle /\ AnIdle /\ SendIdle

MetricsNext ==
    \/ \E duration \in PositiveDurations : S1Run(duration)
    \/ S1SensorSend
    \/ S1SensorSleep
    \/ S1SensorEnd
    \/ SensorQuiet /\ S1Submit /\ s1Future'.kind \in Answers200 \cup {""}
    \/ SensorQuiet /\ S1Result
    \/ SensorQuiet /\ S1ResultTimedOut
    \/ SensorQuiet /\ S1AbandonedEnds /\ s1Future'.kind \in Answers200 \cup {""}
    \/ SensorQuiet /\ S1CollectMetrics(S1MetricsAnswers)
    \/ SensorQuiet /\ S1Sleep
    \/ SensorQuiet /\ S1Return

SpecMetrics == MetricsInit /\ [][MetricsNext]_vars

\* The task queue of app.py: its one consumer thread, callers of add_task and
\* of stop.  The consumer thread is scheduled again and again and a function
\* that is called ends.
TqInit ==
    CollectorInit /\ GenIdle /\ S1Idle /\ LbIdle /\ FoIdle /\ OrchIdle /\ TqIdle /\ AnIdle /\ SendIdle

TqConsumer == TqThreadStart \/ TqLoopTest \/ TqGet \/ TqTaskEnds

TqNext ==
    \/ TqThreadStart
    \/ \E func \in FuncKinds : AddTask(func)
    \/ TqLoopTest
    \/ TqGet
    \/ TqTaskEnds
    \/ TqStop

SpecTq == TqInit /\ [][TqNext]_vars /\ WF_vars(TqConsumer)

\* One Normal run long enough for its pool to fill, against a supervisor whose
\* answers to the tasks come late or not at all, or one short LoadBalance run.
PoolS1Duration == 100

LateAnswers == {"slow", "timeout"}

PoolInit ==
    CollectorInit /\ GenIdle /\ S1Idle /\ LbIdle /\ FoIdle /\ OrchIdle /\ TqIdle /\ AnIdle /\ SendIdle

PoolNext ==
    \/ lbPc = "idle" /\ S1Run(PoolS1Duration)
    \/ S1SensorSend
    \/ S1SensorSleep
    \/ S1SensorEnd
    \/ SensorQuiet /\ S1Submit /\ s1Future'.kind \in LateAnswers \cup {""}
    \/ SensorQuiet /\ S1Result
    \/ SensorQuiet /\ S1ResultTimedOut
    \/ SensorQuiet /\ S1AbandonedEnds /\ s1Future'.kind \in LateAnswers \cup {""}
    \/ SensorQuiet /\ S1CollectMetrics(S1CompleteAnswers)
    \/ SensorQuiet /\ S1Sleep
    \/ SensorQuiet /\ S1Return
    \/ s1Pc = "idle" /\ LbRun(RunsLbDuration)
    \/ LbPhaseBegin
    \/ LbDispatch
    \/ LbSupervisorCall
    \/ LbRpiCall
    \/ LbResult
    \/ LbResultTimedOut
    \/ LbPause
    \/ LbPhaseEnd
    \/ LbReturn

SpecPool == PoolInit /\ [][PoolNext]_vars

\* One call of run_all_scenarios or of run_single_scenario.
\* analyze_all_scenarios on the results of run_all_scenarios: under each of the
\* three scenario ids the results of the iterations, as the engines return
\* them.  How many response times a run recorded:
MaxTimes == 11
TimesCounts == {0, 1, MaxTimes - 1, MaxTimes}

AnTimes(n) == [i \in 1..n |-> 100 + i]

\* scenario_1_normal.py lines 33-43 and 75-79: the result of a run with n
\* completed tasks
S1RunResult(n) ==
    [S1EmptyResults EXCEPT !.tasks_completed = n,
                           !.response_times = AnTimes(n),
                           !.accuracy_scores = [i \in 1..n |-> 90]]

\* scenario_2_failover.py lines 29-42, 52-55 and 78-81: the result of a run
\* with b tasks completed before the failure and a after the recovery
FoRunResult(b, a) ==
    [FoEmptyResults EXCEPT !.tasks_before_failure = b,
                           !.response_times_before = AnTimes(b),
                           !.accuracy_before = [i \in 1..b |-> 90],
                           !.tasks_after_recovery = a,
                           !.response_times_after = AnTimes(a),
                           !.accuracy_after = [i \in 1..a |-> 80]]

\* scenario_3_loadbalance.py lines 32-44, 85-92 and 147-155: the result of a
\* run whose first phase had n tasks returned by the supervisor
LbRunResult(n) ==
    LbAddPhase(LbEmptyResults,
               [LbEmptyPhaseResults EXCEPT !.supervisor_tasks = n,
                                           !.response_times = AnTimes(n),
                                           !.accuracy_scores = [i \in 1..n |-> 90],
                                           !.cpu_usage = [i \in 1..n |-> 50]],
               LoadPhases[1])

Iterations(run, n) == [i \in 1..n |-> run]

AnalyzerInit ==
    /\ CollectorInit /\ GenIdle /\ S1Idle /\ LbIdle /\ FoIdle /\ OrchIdle /\ TqIdle
    /\ SendIdle
    /\ anPc = "called"
    /\ \E n1 \in TimesCounts, b \in TimesCounts, a \in {0, 1}, n3 \in TimesCounts,
          iterations \in 1..MaxIterations :
          anResults = [id \in ScenarioIds |->
                         Iterations(IF id = "S1" THEN S1RunResult(n1)
                                    ELSE IF id = "S2" THEN FoRunResult(b, a)
                                    ELSE LbRunResult(n3), iterations)]
    /\ anSummary = EmptyDict

AnalyzerNext == AnalyzeAllScenarios

SpecAnalyzer == AnalyzerInit /\ [][AnalyzerNext]_vars

\* One call of send_sensor_data with up to MaxRetries retries (the default is
\* among them) and the default delay or a shorter one.
MaxRetries == 3

SendInit ==
    CollectorInit /\ GenIdle /\ S1Idle /\ LbIdle /\ FoIdle /\ OrchIdle /\ TqIdle /\ AnIdle
      /\ SendIdle

SendNext ==
    \/ \E retries \in 0..MaxRetries, delay \in {1, DefaultDelay} :
          SendSensorData(retries, delay)
    \/ SendAttempt
    \/ SendSleep
    \/ SendFailed

SpecSend == SendInit /\ [][SendNext]_vars

OrchInit == CollectorInit /\ GenIdle /\ S1Idle /\ LbIdle /\ FoIdle /\ OrchIdle /\ TqIdle /\ AnIdle /\ SendIdle

OrchNext ==
    \/ \E iterations \in 0..MaxIterations : RunAllScenarios(iterations, DefaultDuration)
    \/ OrchScenarioBegin
    \/ OrchRunBegin
    \/ OrchRunReturned
    \/ OrchRunRaised
    \/ OrchCooldown
    \/ OrchScenarioEnd
    \/ OrchFinalSave
    \/ OrchAnalysis
    \/ \E scenario_id \in RequestedIds, iterations \in 0..MaxIterations :
          RunSingleScenario(scenario_id, iterations, DefaultDuration)
    \/ OrchSingleRunBegin
    \/ OrchSingleRunReturned
    \/ OrchSingleRunRaised
    \/ OrchSingleSave

SpecOrch == OrchInit /\ [][OrchNext]_vars

(***************************************************************************)
(*                               Claims                                    *)
(***************************************************************************)
LastN(s, n) == IF Len(s) <= n THEN s ELSE SubSeq(s, Len(s) - n + 1, Len(s))

\* A sampler has appended to the series of key k and not yet trimmed it.
MidAppend(k) ==
    \E t \in SamplerIds : samplerPc[t] = "trim" /\ HistoryKeys[samplerKey[t]] = k

\* C1: after each sample appended by the sampler (the append and its trim done),
\* every history series holds at most 1000 entries and equals the last
\* min(n, 1000) samples appended to it, in append order: the entry a full series
\* loses is its oldest.
C1_RingBuffer ==
    \A k \in DOMAIN metrics_history :
        ~MidAppend(k) =>
            /\ Len(metrics_history[k]) <= HistoryCapacity
            /\ metrics_history[k] = LastN(appended[k], HistoryCapacity)

\* C1 witness: a series that was full has lost its oldest entries.
C1_Witness ==
    /\ "cpu_percent" \in DOMAIN metrics_history
    /\ ~MidAppend("cpu_percent")
    /\ Len(appended["cpu_percent"]) > HistoryCapacity + 1
    /\ Len(metrics_history["cpu_percent"]) = HistoryCapacity
    /\ Head(metrics_history["cpu_percent"]) # Head(appended["cpu_percent"])

\* C2: no reader observes a partially applied update: in every exported document
\* the attempt counter of a key equals its stored response times plus its errors.
C2_NoPartialUpdate ==
    exported # EmptyDict =>
        \A k \in DOMAIN exported.task_counters :
            exported.task_counters[k] =
                Len(DictGet(exported.response_times, k, <<>>))
                  + DictGet(exported.error_counts, k, 0)

\* No record_task_execution call is in progress.
NoRecording == \A r \in RecorderIds : recPc[r] = "idle"

\* C3: after completed record_task_execution calls with s successes and e > 0
\* failures for a key, get_performance_summary() reports error_rates[key] = e/(s+e).
C3_ErrorRate ==
    [][ (GetPerformanceSummary /\ NoRecording) =>
          \A k \in DOMAIN error_counts :
              error_counts[k] > 0 =>
                  /\ k \in DOMAIN summary'.error_rates
                  /\ RatEq(summary'.error_rates[k],
                           Ratio(error_counts[k],
                                 Len(DictGet(response_times, k, <<>>)) + error_counts[k]))
      ]_vars

InEnvelope(range, slack_lo, slack_hi, x) ==
    range[1] - slack_lo <= x /\ x <= range[2] + slack_hi

\* C4: every numeric sensor field of a returned reading lies inside the envelope
\* [profile_min - slack, profile_max + slack] of the location's profile, also
\* when an anomaly was injected.
C4_ReadingInEnvelope ==
    genPc = "returned" =>
        LET profile == ProfileOf(genLocation)
        IN /\ InEnvelope(profile.temp_range, 200, 200, reading.temperature)
           /\ InEnvelope(profile.humidity_range, 500, 500, reading.humidity)
           /\ InEnvelope(profile.pressure_range, 500, 500, reading.pressure)
           /\ InEnvelope(profile.air_quality_range, 2000, 5000, reading.air_quality)


\* C5: in a Normal-operation run, a dispatch that ends in a network error, a
\* non-200 response or a request timeout adds one to tasks_failed and leaves
\* tasks_completed, response_times and accuracy_scores alone; an HTTP 200
\* dispatch adds one to tasks_completed and appends its response time and accuracy.
C5_FailedDispatchCounted ==
    [][ (s1Pc = "wait" /\ s1Pc' = "metrics" /\ s1Future.state = "running") =>
          IF s1Future.kind = "ok200"
            THEN /\ s1Results'.tasks_completed = s1Results.tasks_completed + 1
                 /\ s1Results'.tasks_failed = s1Results.tasks_failed
                 /\ Len(s1Results'.response_times) = Len(s1Results.response_times) + 1
                 /\ Len(s1Results'.accuracy_scores) = Len(s1Results.accuracy_scores) + 1
            ELSE /\ s1Results'.tasks_failed = s1Results.tasks_failed + 1
                 /\ s1Results'.tasks_completed = s1Results.tasks_completed
                 /\ s1Results'.response_times = s1Results.response_times
                 /\ s1Results'.accuracy_scores = s1Results.accuracy_scores ]_vars

CountAbove(samples, level) == Cardinality({i \in DOMAIN samples : samples[i] > level})

\* C6: in every LoadBalance phase the CPU sample taken for a dispatch is the one
\* that decides it: the task goes to a peer exactly when the sample is above 70
\* and to the primary otherwise, and the load_shedding_events of the phase is
\* the number of its samples above 70.
C6_OffloadDecision ==
    /\ lbPc = "wait" =>
          /\ lbPhaseResults.cpu_usage # <<>>
          /\ lbCpu = lbPhaseResults.cpu_usage[Len(lbPhaseResults.cpu_usage)]
          /\ lbTarget = (IF lbCpu > 70 THEN "rpi" ELSE "supervisor")
          /\ \E call \in lbCalls : call.awaited
          /\ \A call \in lbCalls : call.awaited => call.target = lbTarget
    /\ lbPhaseResults # EmptyDict =>
          lbPhaseResults.load_shedding_events = CountAbove(lbPhaseResults.cpu_usage, 70)
    /\ lbResults # EmptyDict =>
          \A i \in DOMAIN lbResults.phases :
              lbResults.phases[i].results.load_shedding_events =
                  CountAbove(lbResults.phases[i].results.cpu_usage, 70)

\* A second phase in which a sample of 70 went to the primary and a sample of
\* 90 is being offloaded.
C6_Witness ==
    /\ lbPc = "wait"
    /\ lbPhase = 2
    /\ lbCpu = 90
    /\ lbTarget = "rpi"
    /\ Len(lbResults.phases) = 1
    /\ \E i \in DOMAIN lbResults.phases[1].results.cpu_usage :
          lbResults.phases[1].results.cpu_usage[i] = 70
    /\ lbResults.phases[1].results.supervisor_tasks > 0
    /\ lbResults.phases[1].results.load_shedding_events > 0

EverySampleIs(results, level) ==
    \A i \in DOMAIN results.phases :
        \A j \in DOMAIN results.phases[i].results.cpu_usage :
            results.phases[i].results.cpu_usage[j] = level

\* C7: a LoadBalance run in which every CPU sample is 90 ends with
\* tasks_on_supervisor = 0 and load_shedding_events = tasks_on_rpis, whatever
\* the peers do (accept, refuse, time out).
C7_EveryTaskOffloaded ==
    (lbPc = "returned" /\ EverySampleIs(lbResults, 90)) =>
        /\ lbResults.tasks_on_supervisor = 0
        /\ lbResults.load_shedding_events = lbResults.tasks_on_rpis

\* The order of fallback for a task of a location: the peer of that location,
\* then the other peers as configured.
FallbackOrder(location) ==
    IF location = "office" THEN <<"office", "kitchen", "hallway">>
    ELSE IF location = "kitchen" THEN <<"kitchen", "office", "hallway">>
    ELSE <<"hallway", "office", "kitchen">>

\* C8: an offloaded task is posted to the peer of its home location first and
\* then to the remaining peers in configured order, each at most once; the first
\* HTTP 200 ends the trying, and when no peer accepts the call gives one failure
\* result (accuracy 0, error set) and tries no more.
C8_FallbackOrder ==
    \A call \in lbCalls :
        call.target = "rpi" =>
            /\ Len(call.tried) <= 3
            /\ call.tried = SubSeq(FallbackOrder(call.location), 1, Len(call.tried))
            /\ \A i \in 1..(Len(call.answers) - 1) : call.answers[i] # "ok200"
            /\ call.state = "running" =>
                  /\ Len(call.tried) < 3
                  /\ \A i \in DOMAIN call.answers : call.answers[i] # "ok200"
            /\ call.state = "done" =>
                  \/ /\ call.answers[Len(call.answers)] = "ok200"
                     /\ call.result.error = ""
                     /\ call.result.accuracy > 0
                  \/ /\ Len(call.tried) = 3
                     /\ \A i \in DOMAIN call.answers : call.answers[i] # "ok200"
                     /\ call.result.accuracy = 0
                     /\ call.result.error # ""

\* A kitchen task that fell back to office after kitchen raised, and was accepted.
C8_Witness ==
    \E call \in lbCalls :
        /\ call.target = "rpi"
        /\ call.location = "kitchen"
        /\ call.state = "done"
        /\ call.tried = <<"kitchen", "office">>
        /\ call.answers = <<"connerr", "ok200">>
        /\ \E other \in lbCalls :
              /\ other.target = "rpi"
              /\ other.state = "done"
              /\ Len(other.tried) = 3
              /\ other.result.error # ""

\* C9: if in a polling round of the failure detection, within the 60 s cap, a
\* peer answers the status request with supervisor_online false, the detection
\* returns in that round with the time polled so far, whatever the other peers
\* do in that round (unreachable and timed out included).
C9_OfflineReportDetected ==
    /\ foPc = "detect_sleep" =>
          \A l \in DOMAIN foRound.modes : foRound.modes[l] # "offline"
    /\ (foPc = "election" /\ foRound # NoRound) =>
          foResults.failure_detection_time = foNow - foDetectionStart

\* The time at which the first call that reports a leader has ended, and the
\* time at which every call has ended when none does.
FirstLeaderReported(election) ==
    LET leaders == {l \in DOMAIN election : election[l].result.is_leader}
    IN IF leaders = {} THEN SetMax({election[l].elapsed : l \in DOMAIN election}, 0)
       ELSE CHOOSE t \in {election[l].elapsed : l \in leaders} :
                \A l \in leaders : t <= election[l].elapsed

\* C10: election_time is the time from the start of the election to the first
\* report of is_leader true, without waiting for the slower peers; it is the
\* time until every call has returned or timed out only when no peer reports
\* itself leader.
C10_ElectionTime ==
    foPc \in {"phase3_check", "phase3", "finish", "returned"} =>
        foResults.leader_election_time = FirstLeaderReported(foElection)

\* C11: in a Failover run, when the time remaining after failure injection,
\* detection and election is at most 30 s, the phase under the new leader is
\* not run: no recovery task is dispatched and tasks_after_recovery,
\* response_times_after and accuracy_after stay 0, [] and [] to the end of the run.
C11_LeaderPhaseSkipped ==
    [][ /\ (foPc = "phase3_check" /\ foDuration - foNow <= 30000) =>
              /\ foPc' = "finish"
              /\ foNow' = foNow
              /\ foResults'.tasks_after_recovery = 0
              /\ foResults'.response_times_after = <<>>
              /\ foResults'.accuracy_after = <<>>
              /\ foResults'.phase_2_duration = 0
        /\ foPc = "finish" =>
              /\ foPc' = "returned"
              /\ foResults'.tasks_after_recovery = foResults.tasks_after_recovery
              /\ foResults'.response_times_after = foResults.response_times_after
              /\ foResults'.accuracy_after = foResults.accuracy_after ]_vars

\* A run that returned without the last phase, 30 s or less being left, after
\* tasks were completed before the failure.
C11_Witness ==
    /\ foPc = "returned"
    /\ foDuration - foNow <= 30000
    /\ foDuration - foNow > 0
    /\ foResults.phase_2_duration = 0
    /\ foResults.tasks_before_failure > 0
    /\ foResults.tasks_after_recovery = 0

\* C12: a start_collection call made while collection is active starts no
\* further sampler thread and changes nothing of the collector.
C12_StartIdempotent ==
    [][ (collection_active /\ nStarts' = nStarts + 1) =>
            UNCHANGED <<now, host, metrics_history, current_metrics, collection_active,
                        collection_thread, task_counters, response_times, error_counts,
                        task_executions, samplerPc, samplerInterval, samplerMetrics,
                        samplerKey, nSamples, appended>> ]_vars

\* Collection is active after two calls of start_collection and one sampler
\* thread was ever started, which has taken a sample.
C12_Witness ==
    /\ collection_active
    /\ nStarts = 2
    /\ Cardinality({t \in SamplerIds : samplerPc[t] # "unborn"}) = 1
    /\ nSamples >= 1

\* C13: get_performance_summary changes nothing of the collector: task_counters,
\* response_times, error_counts, metrics_history (its set of keys included) and
\* current_metrics are after the call what they were before it.
C13_SummaryIsPure ==
    [][ GetPerformanceSummary =>
            /\ UNCHANGED <<task_counters, response_times, error_counts, metrics_history,
                           current_metrics>>
            /\ DOMAIN metrics_history' = DOMAIN metrics_history ]_vars

\* The summary a parser reads back is the summary the call returned: the same
\* keys, counts, minima and maxima, and means and rates of the same value.
SameStats(a, b) ==
    /\ DOMAIN a = DOMAIN b
    /\ \A k \in DOMAIN a :
          /\ DOMAIN a[k] = DOMAIN b[k]
          /\ \A f \in DOMAIN a[k] :
                IF f = "mean" THEN RatEq(a[k][f], b[k][f]) ELSE a[k][f] = b[k][f]

SameSummary(a, b) ==
    /\ a.task_summary = b.task_summary
    /\ SameStats(a.average_response_times, b.average_response_times)
    /\ DOMAIN a.error_rates = DOMAIN b.error_rates
    /\ \A k \in DOMAIN a.error_rates : RatEq(a.error_rates[k], b.error_rates[k])
    /\ SameStats(a.system_utilization, b.system_utilization)

FreshCollector ==
    /\ DOMAIN task_counters = {}
    /\ DOMAIN response_times = {}
    /\ DOMAIN error_counts = {}
    /\ \A k \in DOMAIN metrics_history : metrics_history[k] = <<>>

\* C15: get_performance_summary returns without dividing by zero: on a collector
\* without executions and samples its four parts are empty, and in every state
\* a mean is taken of a non-empty list only and an error rate of a positive
\* number of attempts only.
C15_SummaryNeverDividesByZero ==
    [][ (GetPerformanceSummary /\ NoRecording) =>
            /\ summary'.returned
            /\ \A k \in DOMAIN summary'.average_response_times :
                  /\ summary'.average_response_times[k].mean[2] > 0
                  /\ summary'.average_response_times[k].count > 0
                  /\ k \in DOMAIN response_times
                  /\ response_times[k] # <<>>
            /\ \A k \in DOMAIN summary'.error_rates : summary'.error_rates[k][2] > 0
            /\ \A n \in DOMAIN summary'.system_utilization :
                  summary'.system_utilization[n].mean[2] > 0
            /\ FreshCollector =>
                  /\ DOMAIN summary'.task_summary = {}
                  /\ DOMAIN summary'.average_response_times = {}
                  /\ DOMAIN summary'.error_rates = {}
                  /\ DOMAIN summary'.system_utilization = {} ]_vars

\* Two summaries of a fresh collector: the second found the two series the
\* first one left behind, both empty, and is empty as well.
C15_Witness ==
    /\ FreshCollector
    /\ nReads = 2
    /\ exported = EmptyDict
    /\ summary.returned
    /\ DOMAIN metrics_history = {"cpu_percent", "memory_percent"}
    /\ DOMAIN summary.system_utilization = {}
    /\ DOMAIN summary.task_summary = {}

\* The response times of the records of the log that are of key k and successful,
\* in the order of the log, and the number of those that failed.
RECURSIVE LoggedTimes(_, _)
LoggedTimes(log, k) ==
    IF log = <<>> THEN <<>>
    ELSE LET rec == log[Len(log)]
             before == LoggedTimes(SubSeq(log, 1, Len(log) - 1), k)
         IN IF <<rec.execution_location, rec.task_type>> = k /\ rec.success
              THEN Append(before, rec.response_time)
              ELSE before

LoggedFailures(log, k) ==
    Cardinality({i \in DOMAIN log :
                   <<log[i].execution_location, log[i].task_type>> = k /\ ~log[i].success})

\* C16: every record_task_execution call adds one to the attempt counter of the
\* key of its location and task type, then either appends its response time to
\* the list of that key or adds one to the error counter of that key, never
\* both, appends one record to task_executions.jsonl and touches no other key:
\* between calls the counters, lists and error counts are those of the log.
C16_RecordTaskExecution ==
    NoRecording =>
        /\ Len(task_executions) = nCalls
        /\ \A k \in Locations \X TaskTypes :
              /\ DictGet(response_times, k, <<>>) = LoggedTimes(task_executions, k)
              /\ DictGet(error_counts, k, 0) = LoggedFailures(task_executions, k)
              /\ DictGet(task_counters, k, 0) =
                    Len(LoggedTimes(task_executions, k))
                      + LoggedFailures(task_executions, k)
              /\ k \in DOMAIN error_counts => error_counts[k] > 0
              /\ k \in DOMAIN response_times => response_times[k] # <<>>
              /\ k \in DOMAIN task_counters => task_counters[k] > 0
        /\ DOMAIN task_counters \subseteq Locations \X TaskTypes
        /\ DOMAIN response_times \subseteq DOMAIN task_counters
        /\ DOMAIN error_counts \subseteq DOMAIN task_counters

\* After a successful and a failed call of two different keys.
C16_Witness ==
    /\ NoRecording
    /\ nCalls = 2
    /\ Len(task_executions) = 2
    /\ task_executions[1].success
    /\ ~task_executions[2].success
    /\ task_executions[1].task_type # task_executions[2].task_type
    /\ Cardinality(DOMAIN task_counters) = 2
    /\ Cardinality(DOMAIN response_times) = 1
    /\ Cardinality(DOMAIN error_counts) = 1

AllTasksSucceeded ==
    s1Pc = "returned" =>
        /\ s1Results.tasks_completed >= 1
        /\ s1Results.tasks_failed = 0
        /\ RatEq(s1Results.success_rate, Ratio(1, 1))
        /\ RatEq(s1Results.success_rate,
                 Ratio(s1Results.tasks_completed,
                       s1Results.tasks_completed + s1Results.tasks_failed))

RunsIn(events, kind) ==
    LET runs == SelectSeq(events, LAMBDA e : e.event = kind)
    IN [k \in DOMAIN runs |-> <<runs[k].scenario_id, runs[k].iteration>>]

\* S1, S2, S3 in this order, each with the tags 1..n.
RunsInFixedOrder(n) ==
    [k \in 1..(3 * n) |-> << <<"S1", "S2", "S3">>[((k - 1) \div n) + 1], ((k - 1) % n) + 1 >>]

IsPrefix(a, b) == Len(a) <= Len(b) /\ a = SubSeq(b, 1, Len(a))

PlaceOf(scenario_id) == IF scenario_id = "S1" THEN 1 ELSE IF scenario_id = "S2" THEN 2 ELSE 3

\* C19: run_all_scenarios runs S1, S2, S3 in this order, each exactly
\* iterations times with the tags 1..iterations; the intermediate file of a
\* scenario is written after all its iterations have returned and before a
\* run of a later scenario is called; final_results.json is written after
\* the three intermediate files; the analysis comes after final_results.json.
C19_RunAllOrder ==
    orchCall.method = "run_all_scenarios" =>
        LET n == orchCall.iterations
            called == RunsIn(orchEvents, "run called")
            returned == RunsIn(orchEvents, "run returned")
            Before(k, kind, id) ==
                {j \in 1..(k - 1) : orchEvents[j].event = kind
                                      /\ orchEvents[j].scenario_id = id}
        IN /\ IsPrefix(called, RunsInFixedOrder(n))
           /\ IsPrefix(returned, called)
           /\ Len(called) - Len(returned) \in {0, 1}
           /\ \A k \in DOMAIN orchEvents :
                 LET e == orchEvents[k]
                 IN /\ e.event = "saved" /\ e.scenario_id \in {"S1", "S2", "S3"} =>
                          /\ Cardinality(Before(k, "run returned", e.scenario_id)) = n
                          /\ Cardinality(Before(k, "run called", e.scenario_id)) = n
                          /\ \A j \in DOMAIN orchEvents :
                                orchEvents[j].event = "run called" =>
                                  IF j < k
                                    THEN PlaceOf(orchEvents[j].scenario_id)
                                           <= PlaceOf(e.scenario_id)
                                    ELSE PlaceOf(orchEvents[j].scenario_id)
                                           > PlaceOf(e.scenario_id)
                    /\ e.event = "saved" /\ e.scenario_id = "final" =>
                          /\ \A id \in {"S1", "S2", "S3"} : Before(k, "saved", id) # {}
                          /\ \A j \in DOMAIN orchEvents :
                                j > k => orchEvents[j].event = "analyzed"
                    /\ e.event = "analyzed" => Before(k, "saved", "final") # {}
           /\ orchPc = "returned" =>
                 /\ returned = RunsInFixedOrder(n)
                 /\ orchEvents[Len(orchEvents)].event = "analyzed"
                 /\ DOMAIN orchFiles = {"intermediate_S1.json", "intermediate_S2.json",
                                        "intermediate_S3.json", "final_results.json"}
                 /\ orchFiles["final_results.json"] = orchResults
                 /\ \A id \in {"S1", "S2", "S3"} :
                       /\ Len(orchResults[id]) = n
                       /\ \A i \in 1..n : orchResults[id][i].iteration = i

\* run_all_scenarios(2, ...) has returned.
C19_Witness ==
    /\ orchPc = "returned"
    /\ orchCall.method = "run_all_scenarios"
    /\ orchCall.iterations = 2
    /\ Len(orchEvents) = 17
    /\ Len(orchFiles["intermediate_S1.json"]["S1"]) = 2
    /\ DOMAIN orchFiles["intermediate_S1.json"] = {"S1"}

\* C20: run_single_scenario with a scenario id other than S1, S2 and S3
\* raises at once: no run is called and no file is written.
C20_UnknownScenarioRaises ==
    [][/\ (/\ orchPc = "idle"
            /\ orchCall'.method = "run_single_scenario"
            /\ orchCall'.scenario_id \notin {"S1", "S2", "S3"})
          => /\ orchPc' = "raised"
             /\ orchEvents' = <<>>
             /\ orchFiles' = EmptyDict
       /\ orchPc = "raised" => UNCHANGED <<orchPc, orchEvents, orchFiles>>]_vars

\* run_single_scenario('S4', 2, ...) has raised.
C20_Witness ==
    /\ orchPc = "raised"
    /\ orchCall.method = "run_single_scenario"
    /\ orchCall.scenario_id = "S4"
    /\ orchCall.iterations = 2
    /\ orchEvents = <<>>
    /\ orchFiles = EmptyDict

\* The intermediate files of the scenarios before place k.
IntermediateFilesBefore(k) ==
    {"intermediate_" \o <<"S1", "S2", "S3">>[j] \o ".json" : j \in 1..(k - 1)}

\* C21: when scenario.run raises during run_all_scenarios the batch ends: no
\* later iteration and no later scenario is run, final_results.json is not
\* written and the analysis is not called; the intermediate files of the
\* earlier scenarios remain, and the iterations the failing scenario had
\* completed are in no file.
C21_RaisingRunEndsBatch ==
    \A k \in DOMAIN orchEvents :
        (orchCall.method = "run_all_scenarios" /\ orchEvents[k].event = "run raised") =>
            LET failing == orchEvents[k].scenario_id
            IN /\ k = Len(orchEvents)
               /\ orchPc = "raised"
               /\ ~ENABLED OrchNext
               /\ DOMAIN orchFiles = IntermediateFilesBefore(PlaceOf(failing))
               /\ \A name \in DOMAIN orchFiles :
                     /\ failing \notin DOMAIN orchFiles[name]
                     /\ \A id \in DOMAIN orchFiles[name] :
                           Len(orchFiles[name][id]) = orchCall.iterations
               /\ \A j \in DOMAIN orchEvents :
                     /\ orchEvents[j].event # "analyzed"
                     /\ orchEvents[j].event = "saved" =>
                           PlaceOf(orchEvents[j].scenario_id) < PlaceOf(failing)
                             /\ orchEvents[j].scenario_id # "final"

\* The second iteration of S2 has raised after the first had returned.
C21_Witness ==
    /\ orchPc = "raised"
    /\ orchCall.method = "run_all_scenarios"
    /\ orchCall.iterations = 2
    /\ orchEvents[Len(orchEvents)] =
          [event |-> "run raised", scenario_id |-> "S2", iteration |-> 2]
    /\ Len(orchScenarioResults) = 1
    /\ DOMAIN orchFiles = {"intermediate_S1.json"}

\* C22: a metrics request that fails, is answered with another status than 200
\* or with a JSON body lacking the cpu/memory fields makes the caller record a
\* locally generated value, and the run goes on without raising: the Normal
\* run never raises, and every loop turn that is past its metrics has recorded
\* one value in each of the four lists.
C22_MetricsFallback ==
    /\ s1Pc # "raised"
    /\ s1Pc = "sleep" =>
          \A list \in {"cpu_usage", "memory_usage", "network_overhead",
                        "energy_consumption"} :
              Len(s1Results[list]) = s1Results.tasks_completed + s1Results.tasks_failed

\* The ids of the events of one kind, in the order of the log.
RECURSIVE IdsOf(_, _)
IdsOf(log, event) ==
    IF log = <<>> THEN <<>>
    ELSE IF Head(log).event = event
           THEN <<Head(log).id>> \o IdsOf(Tail(log), event)
           ELSE IdsOf(Tail(log), event)

StrictlyIncreasing(ids) == \A i, j \in DOMAIN ids : i < j => ids[i] < ids[j]

\* C23: the consumer executes the queued tasks in the order they were added,
\* one at a time, and each added task at most once: the tasks it has got are
\* in the order of their add_task calls and were all added before every task
\* still queued, no task is got twice, and a task whose execution began has
\* ended before the next is got.
C23_FifoOneAtATimeAtMostOnce ==
    LET got == [k \in DOMAIN tqLog |-> tqLog[k].id]
        executed == IdsOf(tqLog, "executing")
    IN /\ StrictlyIncreasing(executed)
       /\ \A k \in DOMAIN tqLog : \A q \in DOMAIN tqTasks : got[k] < tqTasks[q].id
       /\ StrictlyIncreasing([q \in DOMAIN tqTasks |-> tqTasks[q].id])
       /\ \A k \in DOMAIN tqLog :
             tqLog[k].event = "executing" =>
                IF k = Len(tqLog)
                  THEN tqPc = "executing" /\ tqCurrent.id = tqLog[k].id
                  ELSE /\ tqLog[k + 1].id = tqLog[k].id
                       /\ tqLog[k + 1].event \in {"returned", "error", "died"}
       /\ tqPc = "executing" <=>
             (tqLog # <<>> /\ tqLog[Len(tqLog)].event = "executing")

\* Three tasks were added before the first was got, and all three were executed.
C23_Witness ==
    /\ IdsOf(tqLog, "executing") = <<1, 2, 3>>
    /\ IdsOf(tqLog, "returned") = <<1, 3>>
    /\ tqPc = "test"

Queued(id) == \E q \in DOMAIN tqTasks : tqTasks[q].id = id
Executed(id) == \E k \in DOMAIN tqLog : tqLog[k] = [event |-> "executing", id |-> id]

\* Every queued task is a function with a __name__ that returns or raises an
\* exception derived from Exception.
OrdinaryTasks == \A q \in DOMAIN tqTasks : tqTasks[q].func \in {"returns", "raises"}

C24_ResultFinalAfterReturn ==
    lbPc = "returned" =>
        /\ lbMonitor.pc # "sampling"
        /\ RatEq(lbResults.load_balancing_effectiveness,
                 LoadBalancingEffectiveness(lbResults.cpu_usage_timeline))

\* C25: the phases of a LoadBalance run execute in the order normal_load,
\* increasing_load, high_load, recovery without overlap: a task is dispatched
\* only while the phases before its own, and no other, are recorded and no call
\* of an earlier phase is left; a phase is left only when its loop has exited
\* and every call dispatched in it has finished, for the next in the order or
\* for the return; the recorded phases are a prefix of the order.
C25_PhasesInOrder ==
    /\ [](lbPc \notin {"idle"} =>
            /\ Len(lbResults.phases) <= Len(LoadPhases)
            /\ \A i \in DOMAIN lbResults.phases :
                  lbResults.phases[i].phase_name = LoadPhases[i].name)
    /\ [][ /\ (lbPc = "loop" /\ lbPc' = "wait") =>
               /\ Len(lbResults.phases) = lbPhase - 1
               /\ lbTask'.complexity = ComplexityOf(LoadPhases[lbPhase].name)
               /\ \A call \in lbCalls' : call.start >= lbPhaseStart
           /\ lbPhase' # lbPhase /\ lbPc # "idle" =>
               /\ lbPhase' = lbPhase + 1
               /\ lbNow - lbPhaseStart >= lbPhaseDuration
               /\ \A call \in lbCalls :
                     /\ call.state \in {"done", "failed"}
                     /\ call.start + call.elapsed <= lbNow'
               /\ lbCalls' = {}
               /\ Len(lbResults'.phases) = lbPhase
           /\ lbPc = "phase_check" /\ lbPc' = "loop" =>
               /\ lbPhaseStart' = lbNow
               /\ lbCalls = {}
          ]_vars

\* A task of increasing_load is dispatched after normal_load was recorded.
C25_Witness ==
    /\ lbPc = "wait"
    /\ lbPhase = 2
    /\ Len(lbResults.phases) = 1
    /\ lbResults.phases[1].phase_name = "normal_load"
    /\ lbTask.complexity = "medium"

\* The place of a position of the Failover run in the order of its steps.
FoStepOf(pc) ==
    IF pc = "idle" THEN 0
    ELSE IF pc = "phase1" THEN 1
    ELSE IF pc = "failure" THEN 2
    ELSE IF pc \in {"detect", "detect_sleep"} THEN 3
    ELSE IF pc \in {"election", "election_pool"} THEN 4
    ELSE IF pc = "phase3_check" THEN 5
    ELSE IF pc = "phase3" THEN 6
    ELSE 7

\* C26: the steps of a Failover run occur in the order phase 1, failure
\* injection, failure detection, leader election, phase 3: the run moves from
\* one step to the next only (phase 3 may be skipped), a task is sent only in
\* phase 1, before the failure injection, or in phase 3, the election starts
\* only when the detection has returned its time, and phase 3 starts only
\* when every election call has ended and the election has returned.
C26_FailoverStepOrder ==
    [][ /\ foNow' >= foNow \/ foPc = "idle"
        /\ foPc' # "raised" =>
              \/ FoStepOf(foPc') = FoStepOf(foPc)
              \/ FoStepOf(foPc') = FoStepOf(foPc) + 1
              \/ foPc = "phase3_check" /\ foPc' = "finish"
        /\ (foPhase' # foPhase /\ foPc' = foPc) => foPc \in {"phase1", "phase3"}
        /\ (foPc = "phase1" /\ foPhase' # foPhase) =>
              /\ foResults = FoEmptyResults
              /\ foDetectionStart = 0
        /\ (foPc = "election" /\ foPc' = "election_pool") =>
              /\ foResults.failure_detection_time > 0
              /\ foElectionStart' = foNow
              /\ foNow >= foDetectionStart
              /\ foDetectionStart > 0
        /\ foPc' = "phase3" =>
              /\ \A l \in RpiSet : foElection[l].state = "done"
              /\ foResults'.leader_election_time = PoolJoined(foElection)
              /\ foPhaseStart' >= foElectionStart + PoolJoined(foElection)
      ]_vars

\* A task of phase 3 has been answered, after tasks of phase 1, the failure
\* injection, the detection and the election.
C26_Witness ==
    /\ foPc = "phase3"
    /\ foPhase.tasks_completed >= 1
    /\ foResults.tasks_before_failure >= 1
    /\ foDetectionStart > 0
    /\ foResults.failure_detection_time > 0
    /\ foResults.leader_election_time > 0

\* C27: when no peer has reported the supervisor offline and the 60 s of the
\* detection cap have elapsed, the detection does not raise and starts no new
\* polling round: it returns the default of 30 s as the detection time, and
\* the run goes on to the leader election.
C27_DetectionDefault ==
    /\ [](foPc = "detect" /\ foNow - foDetectionStart >= FoDetectionCap =>
             ENABLED FoDetectDefault)
    /\ [][ /\ (foPc = "detect" /\ foNow - foDetectionStart >= FoDetectionCap) =>
                 /\ foPc' = "election"
                 /\ foResults'.failure_detection_time = FoDetectionDefault
                 /\ foResults' = [foResults EXCEPT
                                    !.failure_detection_time = FoDetectionDefault]
                 /\ foRound' = foRound
                 /\ foNow' = foNow
           /\ (foPc = "detect" /\ foRound' # foRound) =>
                 foNow - foDetectionStart < FoDetectionCap
           /\ foPc \in {"detect", "detect_sleep"} => foPc' # "raised"
         ]_vars

\* The last round began before the cap and ended after it without a report;
\* the default was returned.
C27_Witness ==
    /\ foPc = "election"
    /\ foNow - foDetectionStart > FoDetectionCap
    /\ foResults.failure_detection_time = FoDetectionDefault

\* C28: performance_degradation is max(0, (avg_after - avg_before) /
\* avg_before * 100) when both lists of response times are non-empty and 0
\* when one is empty; it is never negative, and computing it never raises for
\* lists of non-negative response times, an average of 0 before the failure
\* included.
C28_PerformanceDegradation ==
    /\ foPc # "raised"
    /\ foPc = "returned" =>
          LET before == foResults.response_times_before
              after == foResults.response_times_after
              value == foResults.performance_degradation
          IN /\ value[2] > 0
             /\ value[1] >= 0
             /\ (before = <<>> \/ after = <<>>) => value[1] = 0
             /\ (before # <<>> /\ after # <<>>) =>
                   \* value = max(0, 100 * (avg_after - avg_before) / avg_before)
                   LET diff == SeqSum(after) * Len(before) - SeqSum(before) * Len(after)
                   IN IF diff <= 0
                        THEN value[1] = 0
                        ELSE RatEq(value, Ratio(100 * diff, Len(after) * SeqSum(before)))

\* The task calls of the Normal run that are executing.
S1Executing == s1Abandoned.running + (IF s1Future.state = "running" THEN 1 ELSE 0)

\* C30: the number of task calls executing at the same time is at most the
\* size of the pool: 3 in a Normal run and twice the task rate of the current
\* phase in a LoadBalance run, calls that outlived the 30 s wait on their
\* result included.
C30_PoolBound ==
    /\ S1Executing <= 3
    /\ (lbPhase \in DOMAIN LoadPhases) =>
          Cardinality(LbExecuting) <= 2 * LoadPhases[lbPhase].rate
    /\ lbPhase \notin DOMAIN LoadPhases => LbExecuting = {}

\* Three calls of the Normal run outlived their wait and are still executing;
\* the fourth waits in the queue of the pool.
C30_Witness ==
    /\ s1Abandoned.running = 3
    /\ s1Future.state = "queued"
    /\ S1Executing = 3

\* The calls of a Load-balancing phase that are still executing.
LbRunningCalls(calls) == {[start |-> c.start, target |-> c.target] : c \in {d \in calls : d.state = "running"}}

\* C31: in every scenario loop (the task loop and the sensor thread of Normal
\* operation, the phase loop of Load balancing, the loops of phases 1 and 3 of
\* Failover) a dispatch, or a round of sensor sends, starts only while the time
\* elapsed since the start of the loop is below the duration; a call that has
\* started leaves the pool only by ending (in time, or after the wait for its
\* result timed out, when it goes on in its worker until it ends); and at a
\* loop test at or after the deadline the loop can only be left.
C31_DeadlineOnlyAtLoopTest ==
    [][/\ s1Pc = "check" /\ s1Pc' = "wait" => s1Now < s1Duration
       /\ s1Sensor.pc = "send" /\ s1Sensor.sent = 0 /\ s1Sensor' # s1Sensor
             => s1Sensor'.pc = "ended" \/ s1Sensor.now < s1Duration
       /\ lbPc = "loop" /\ lbPc' = "wait" => lbNow - lbPhaseStart < lbPhaseDuration
       /\ foPc \in {"phase1", "phase3"} /\ (foPhase' # foPhase \/ foNow' # foNow)
             => foNow - foPhaseStart < foPhaseDuration
       \* no call is cancelled
       /\ s1Future.state = "running" /\ s1Future' # s1Future
             => /\ s1Future' = NoFuture
                /\ \/ s1Future.kind # "slow" /\ s1Abandoned' = s1Abandoned
                         /\ s1Now' = s1Now + DispatchLatency(s1Future.kind, S1RequestTimeout)
                   \/ s1Future.kind = "slow" /\ s1Now' = s1Now + S1ResultTimeout
                         /\ s1Abandoned'.running = s1Abandoned.running + 1
       /\ s1Future.state = "queued" /\ s1Future' # s1Future
             => \/ s1Future'.state = "running"
                \/ s1Future' = NoFuture /\ s1Abandoned'.queued = s1Abandoned.queued + 1
       /\ s1Abandoned'.running + s1Abandoned'.queued < s1Abandoned.running + s1Abandoned.queued
             => s1Abandoned.running > 0 /\ s1Pc' = s1Pc
       /\ s1Pc' = "returned" /\ s1Pc # "returned"
             => s1Abandoned.running = 0 /\ s1Abandoned.queued = 0
       /\ LbRunningCalls(lbCalls) \subseteq
             {[start |-> c.start, target |-> c.target] : c \in lbCalls'}
       /\ lbCalls' # lbCalls /\ lbPc = "wait" /\ lbPc' # "wait"
             => \E call \in lbCalls :
                   \/ call.state \in {"done", "failed"} /\ lbCalls' = lbCalls \ {call}
                   \/ call.elapsed > LbResultTimeout
                         /\ lbCalls' = (lbCalls \ {call}) \cup {[call EXCEPT !.awaited = FALSE]}
       \* at or after the deadline the loop is left
       /\ s1Pc = "check" /\ s1Now >= s1Duration => s1Pc' \in {"check", "returned"}
       /\ lbPc = "loop" /\ lbNow - lbPhaseStart >= lbPhaseDuration
             => lbPc' \in {"loop", "phase_check"}
       /\ foPc = "phase1" /\ foNow - foPhaseStart >= foPhaseDuration
             => foPc' \in {"phase1", "failure"} /\ foPhase' = foPhase
       /\ foPc = "phase3" /\ foNow - foPhaseStart >= foPhaseDuration
             => foPc' \in {"phase3", "finish"} /\ foPhase' = foPhase]_vars

\* A Normal-operation run that has returned after the deadline, with a call
\* that the wait for the result gave up on and that ended in the pool since.
C31_Witness ==
    /\ s1Pc = "returned"
    /\ s1Now >= s1Duration
    /\ s1Results.tasks_failed >= 1
    /\ s1Results.tasks_completed >= 1
    /\ s1Abandoned.running = 0

RECURSIVE Flatten(_)
Flatten(lists) == IF lists = <<>> THEN <<>> ELSE Head(lists) \o Flatten(Tail(lists))

\* The response times the engine of a scenario stored in the result of one run:
\* response_times (Normal operation), response_times_before and
\* response_times_after (Failover), response_times of each phase (Load balancing).
RunRecordedTimes(id, run) ==
    IF id = "S1" THEN run.response_times
    ELSE IF id = "S2" THEN run.response_times_before \o run.response_times_after
    ELSE Flatten([k \in DOMAIN run.phases |-> run.phases[k].results.response_times])

RecordedTimes(id, scenario_data) ==
    Flatten([k \in DOMAIN scenario_data |-> RunRecordedTimes(id, scenario_data[k])])

\* C32: for every scenario whose runs recorded at least one response time, the
\* summary the analyzer returns has a response_time distribution for that
\* scenario, computed from the recorded response times.
C32_ResponseTimeDistribution ==
    anPc = "returned" =>
        \A id \in DOMAIN anResults :
            LET times == RecordedTimes(id, anResults[id])
                metrics == anSummary.scenario_summaries[id].performance_metrics
            IN times # <<>> =>
                  /\ "response_time" \in DOMAIN metrics
                  /\ metrics["response_time"] = Distribution(times)

\* C33: for the results of the three engines, pairwise_comparisons has an entry
\* for a pair of scenarios exactly when both recorded more than 10 response
\* times.
C33_PairwiseComparisons ==
    anPc = "returned" =>
        LET pairs == DictGet(anSummary.cross_scenario_analysis,
                             "pairwise_comparisons", <<>>)
        IN \A i, j \in DOMAIN ScenarioOrder :
              i < j =>
                 ((/\ Len(RecordedTimes(ScenarioOrder[i], anResults[ScenarioOrder[i]])) > 10
                   /\ Len(RecordedTimes(ScenarioOrder[j], anResults[ScenarioOrder[j]])) > 10)
                  <=> \E k \in DOMAIN pairs : /\ pairs[k].scenario_1 = ScenarioOrder[i]
                                               /\ pairs[k].scenario_2 = ScenarioOrder[j])

\* The steps of n iterations of one scenario: each run called and returned
\* with the tags 1..n in this order, then the results saved.
IterationSteps(id, n) ==
    [k \in 1..(2 * n + 1) |->
        IF k = 2 * n + 1 THEN [event |-> "saved", scenario_id |-> id, iteration |-> 0]
        ELSE [event |-> IF k % 2 = 1 THEN "run called" ELSE "run returned",
              scenario_id |-> id, iteration |-> (k + 1) \div 2]]

\* C34: a call of run_single_scenario(id, n, d) that has returned has taken
\* the steps run_all_scenarios takes for one scenario: n runs called and
\* returned, tagged 1..n, with a cooldown of 30 s between two repetitions, and
\* then the n results of the scenario saved under its id.  (Stated for both
\* methods: of run_all_scenarios it holds for each of the three scenarios.)
C34_SingleAsAllRestricted ==
    orchPc = "returned" =>
        LET n == orchCall.iterations
            ids == IF orchCall.method = "run_single_scenario"
                     THEN {orchCall.scenario_id} ELSE ScenarioIds
        IN /\ \A id \in ids :
                 /\ SelectSeq(orchEvents, LAMBDA ev : ev.scenario_id = id)
                       = IterationSteps(id, n)
                 /\ \E file \in DOMAIN orchFiles :
                       /\ id \in DOMAIN orchFiles[file]
                       /\ Len(orchFiles[file][id]) = n
                       /\ \A k \in 1..n : orchFiles[file][id][k].iteration = k
           /\ n >= 1 => orchSlept >= CooldownSeconds * (n - 1) * Cardinality(ids)

RECURSIVE DictSum(_)
DictSum(d) ==
    IF DOMAIN d = {} THEN 0
    ELSE LET k == CHOOSE x \in DOMAIN d : TRUE
         IN d[k] + DictSum([x \in (DOMAIN d) \ {k} |-> d[x]])

\* The tasks a returned run has dispatched, as far as its result tells: every
\* dispatch of Normal operation is counted completed or failed, every dispatch
\* of Load balancing left one cpu_usage sample in its phase, and Failover
\* counts the tasks answered with 200 (a lower bound of its dispatches).
TasksDispatched ==
    IF s1Pc = "returned" THEN s1Results.tasks_completed + s1Results.tasks_failed
    ELSE IF lbPc = "returned"
      THEN SeqSum([k \in DOMAIN lbResults.phases |->
                      Len(lbResults.phases[k].results.cpu_usage)])
    ELSE IF foPc = "returned"
      THEN foResults.tasks_before_failure + foResults.tasks_after_recovery
    ELSE 0

\* C35: after a scenario run the attempt counters of the collector the engine
\* was given sum to the number of tasks the engine dispatched, and one
\* execution record was appended per dispatch.
C35_DispatchesRecorded ==
    /\ DictSum(task_counters) >= TasksDispatched
    /\ Len(task_executions) >= TasksDispatched
    /\ s1Pc = "returned" \/ lbPc = "returned"
          => /\ DictSum(task_counters) = TasksDispatched
             /\ Len(task_executions) = TasksDispatched

Posts(log) == SelectSeq(log, LAMBDA ev : ev.event = "post")

\* C36: one send_sensor_data call posts at most retries times; after the
\* first attempt that obtains a response it returns the text of that response
\* and posts no more; it sleeps delay seconds only after a failed attempt that
\* is not the last one, and then attempts again; and a call that has returned
\* has returned "Failed after retries." exactly when it made all its attempts
\* and each of them raised.
C36_SendRetries ==
    /\ Len(Posts(sendLog)) <= sendRetries
    /\ \A k \in DOMAIN sendLog :
          /\ (sendLog[k].event = "post" /\ sendLog[k].raised = "none")
                => /\ k = Len(sendLog)
                   /\ sendPc = "returned"
                   /\ sendReturn \in {ResponseText(kind) : kind \in {"ok200", "http500"}}
                   /\ \A j \in 1..(k - 1) : sendLog[j].raised # "none" \/ sendLog[j].event = "sleep"
          /\ sendLog[k].event = "sleep"
                => /\ sendLog[k].seconds = sendDelay
                   /\ k > 1
                   /\ sendLog[k - 1].event = "post" /\ sendLog[k - 1].raised # "none"
                   /\ sendLog[k - 1].attempt < sendRetries
                   /\ IF k < Len(sendLog)
                         THEN sendLog[k + 1].event = "post"
                         ELSE sendPc = "loop" /\ sendAttempt <= sendRetries
    /\ sendPc = "returned"
          => (sendReturn = FailedAfterRetries
                <=> /\ Len(Posts(sendLog)) = sendRetries
                    /\ \A k \in DOMAIN sendLog :
                          sendLog[k].event = "post" => sendLog[k].raised # "none")

\* A call with the default retries that has returned "Failed after retries."
\* after three failed attempts and two sleeps.
C36_Witness ==
    /\ sendPc = "returned"
    /\ sendRetries = DefaultRetries
    /\ sendReturn = FailedAfterRetries
    /\ Len(Posts(sendLog)) = 3
    /\ Len(sendLog) = 5

\* The sampler threads that are in a turn of their loop: past the test of
\* collection_active and not yet asleep.
SamplersSampling ==
    {t \in SamplerIds : samplerPc[t] \in {"read", "append", "trim", "publish"}}

\* C37: whatever start_collection and stop_collection calls were made, at
\* most one sampler thread is alive and appending samples.
C37_OneSamplerAlive == Cardinality(SamplersSampling) <= 1

\* The record_task_execution calls for a key that have completed: each wrote
\* its execution record as its last step.
CompletedCalls(k) ==
    Cardinality({i \in DOMAIN task_executions :
                    CounterKey(task_executions[i].execution_location,
                               task_executions[i].task_type) = k})

\* C38: when N record_task_execution calls for a key have completed and none
\* is in progress, the attempt counter of the key is N, and its stored response
\* times and its error counter add up to N.
C38_NoLostUpdate ==
    NoRecording =>
        \A l \in Locations, ty \in TaskTypes :
            LET k == CounterKey(l, ty)
            IN /\ DictGet(task_counters, k, 0) = CompletedCalls(k)
               /\ Len(DictGet(response_times, k, <<>>)) + DictGet(error_counts, k, 0)
                     = CompletedCalls(k)

\* The first peer, in the configured order, whose status request was answered
\* with is_leader true.
FirstReportedLeader(statuses) ==
    LET leaders == {i \in DOMAIN RpiOrder : statuses[RpiOrder[i]] = "leader"}
    IN IF leaders = {} THEN "None"
       ELSE RpiOrder[CHOOSE i \in leaders : \A j \in leaders : i <= j]

\* C39: once phase 3 of a Failover run has begun, its leader endpoint is the
\* first peer in configured order that reported is_leader true when the phase
\* began, every task of the phase was posted to that endpoint, and when no
\* peer reported itself leader (the status requests that fail included) no
\* task was posted and the phase gives tasks_completed 0 and no response times.
C39_OneLeaderEndpoint ==
    foSent.statuses # EmptyDict =>
        LET chosen == FirstReportedLeader(foSent.statuses)
        IN /\ foLeaderEndpoint = chosen
           /\ foSent.targets \subseteq {chosen} \ {"None"}
           /\ chosen = "None"
                 => /\ foPc = "phase3"
                       => foPhase.tasks_completed = 0 /\ foPhase.response_times = <<>>
                    /\ foPc \in {"finish", "returned"}
                       => /\ foResults.tasks_after_recovery = 0
                          /\ foResults.response_times_after = <<>>

\* Phase 3 has posted a task to the hallway peer, the only one that reported
\* itself leader, after the office peer did not answer.
C39_Witness ==
    /\ foPc = "phase3"
    /\ foSent.statuses # EmptyDict
    /\ foSent.statuses["office"] = "unreachable"
    /\ foSent.statuses["kitchen"] = "follower"
    /\ foSent.targets = {"hallway"}
    /\ foPhase.tasks_completed >= 1

\* C40: once stop() has been called the consumer starts no further task: the
\* tasks still queued and those added afterwards are not executed.
C40_NoTaskAfterStop ==
    [][~tqRunning => IdsOf(tqLog', "executing") = IdsOf(tqLog, "executing")]_vars

====
